---------------------------- MODULE Spec2Model ----------------------------
(***************************************************************************)
(* TreeViz OAuth popup client (TreeVizOAuth.signIn) as a state machine.     *)
(*                                                                         *)
(* One browser page holds one TreeVizOAuth instance.  The page's event     *)
(* loop runs one task at a time: a signIn call, the continuation of a      *)
(* signIn after the SHA-256 digest, the dispatch of one posted message to  *)
(* every registered "message" listener, one closure-poll tick, or the      *)
(* continuation of a message handler after its backend exchange.  The      *)
(* environment (user, popup pages, other windows, the exchange endpoint)   *)
(* closes popups, posts messages and answers fetches.                      *)
(***************************************************************************)
EXTENDS Integers, Sequences, FiniteSets, TLC

(***************************************************************************)
(* Bounds of the model.                                                    *)
(***************************************************************************)
\* number of signIn invocations made on the client instance
MaxCalls == 2
\* number of posted messages that may wait in the page's task queue
MaxBus == 1

Calls == 1..MaxCalls

(***************************************************************************)
(* JavaScript values.  A missing property is a field absent from the       *)
(* record; null is a sentinel string.                                      *)
(***************************************************************************)
Undefined == "<undefined>"
Null == "<null>"

Get(o, k) == IF k \in DOMAIN o THEN o[k] ELSE Undefined

\* JavaScript truthiness of a string-or-null-or-undefined value
Truthy(v) == v \notin {Undefined, Null, ""}

\* v || null
OrNull(v) == IF Truthy(v) THEN v ELSE Null

\* new Error(message)
Err(msg) == [isError |-> TRUE, message |-> msg]

\* a thrown value that is not an instance of Error
NonErr(msg) == [isError |-> FALSE, message |-> msg]

(***************************************************************************)
(* Literals of the source.                                                 *)
(***************************************************************************)
SUCCESS == "TREEVIZ_AUTH_SUCCESS"
ERROR == "TREEVIZ_AUTH_ERROR"

PopupBlockedMessage == "Popup blocked. Please allow popups for this site."
CancelledMessage == "authError.authenticationCancelled"
InvalidResponseMessage == "Invalid authentication response"
ExchangeFailedMessage == "Token exchange failed"
AuthFailedMessage == "TreeViz authentication failed"
InvalidEnvelopeMessage == "Invalid response from backend exchange endpoint"

\* constants.ts
TREEVIZ_OAUTH_URLS ==
    [production |-> "https://treeviz.com",
     development |-> "https://dev.treeviz.com"]
TREEVIZ_OAUTH_CALLBACK_PATH == "/oauth/callback"
TREEVIZ_TOKEN_ENDPOINTS ==
    [production |-> "https://treeviz.com/api/oauth/token",
     development |->
       "https://europe-west1-family-tree-a31ba.cloudfunctions.net/oauth_token"]
TREEVIZ_AUTHORIZE_ENDPOINTS ==
    [production |-> "https://treeviz.com/api/oauth/authorize",
     development |->
       "https://europe-west1-family-tree-a31ba.cloudfunctions.net/oauth_authorize"]
DEFAULT_OAUTH_SCOPES == <<"email", "profile">>

\* window.location.origin of the page that holds the client
Origin == "https://app.example"

(***************************************************************************)
(* Inputs: configurations, posted messages, exchange endpoint answers.     *)
(***************************************************************************)
ExchangeUrl == "https://app.example/api/exchange"

PkceConfig == [appId |-> "app", exchangeTokenUrl |-> ExchangeUrl]
LegacyConfig == [appId |-> "app", usePKCE |-> FALSE, appSecret |-> "s3cret"]

Configs ==
    { PkceConfig,
      LegacyConfig,
      [appId |-> ""],
      [appId |-> "app"],
      [appId |-> "app", usePKCE |-> FALSE] }

\* the configurations of the constructor checks: every field of
\* TreeVizOAuthConfig the constructor reads is absent, empty or set
Field(k, values) == {<<>>} \cup {[x \in {k} |-> v] : v \in values}

AllConfigs ==
    { a @@ p @@ s @@ u @@ e @@ c :
        a \in Field("appId", {"", "app"}),
        p \in Field("usePKCE", BOOLEAN),
        s \in Field("appSecret", {"", "s3cret"}),
        u \in Field("exchangeTokenUrl", {"", ExchangeUrl}),
        e \in Field("environment", {"production", "development", "staging"}),
        c \in Field("scopes", {<<>>, <<"email">>}) }

\* event.data of a message event whose data is null
NullData == [isNull |-> TRUE]

MsgCode == [type |-> SUCCESS, code |-> "abc"]
MsgToken == [type |-> SUCCESS, token |-> "tok", uid |-> "u1",
             email |-> "m@x.com", displayName |-> "", photoURL |-> Null]
MsgDenied == [type |-> ERROR, error |-> "denied"]
MsgErrorEmpty == [type |-> ERROR, error |-> ""]
MsgOther == [type |-> "OTHER_MESSAGE"]
MsgNoType == [payload |-> "x"]

Messages ==
    { MsgCode, MsgToken, MsgDenied, MsgErrorEmpty, MsgOther }

GoodUser == [uid |-> "U", email |-> "e@x.com", displayName |-> "D",
             photoURL |-> Null]

RespGood == [kind |-> "response", ok |-> TRUE, status |-> 200, text |-> "",
             json |-> [result |-> [firebaseToken |-> "T", user |-> GoodUser]]]
RespServerError == [kind |-> "response", ok |-> FALSE, status |-> 500,
                    text |-> "oops", json |-> [error |-> "oops"]]
RespNoEnvelope == [kind |-> "response", ok |-> TRUE, status |-> 200,
                   text |-> "",
                   json |-> [token |-> "T", uid |-> "U", email |-> "e@x.com",
                             displayName |-> "D", photoURL |-> Null]]
RespGoodNulls == [kind |-> "response", ok |-> TRUE, status |-> 200, text |-> "",
                  json |-> [result |-> [firebaseToken |-> "T2",
                                        user |-> [uid |-> "U2", email |-> Null,
                                                  displayName |-> Null,
                                                  photoURL |-> "p.png"]]]]
RespNoUser == [kind |-> "response", ok |-> TRUE, status |-> 200, text |-> "",
               json |-> [result |-> [firebaseToken |-> "T"]]]
FetchThrowsError == [kind |-> "throw", value |-> Err("Failed to fetch")]
FetchThrowsNonError == [kind |-> "throw", value |-> NonErr("boom")]

FetchOutcomes ==
    { RespGood, RespGoodNulls, RespServerError, RespNoEnvelope, RespNoUser,
      FetchThrowsError, FetchThrowsNonError }

\* the JSON values that are falsy in JavaScript: null, false, 0 and ""
JsonFalsy == { [json |-> "null"], [json |-> "false"], [json |-> "0"],
               [json |-> "\"\""] }

\* answers of the TreeViz token and authorize endpoints
RespToken == [kind |-> "response", ok |-> TRUE, status |-> 200, text |-> "",
              json |-> [result |-> [accessToken |-> "A", tokenType |-> "Bearer",
                                    expiresIn |-> 3600, user |-> GoodUser]]]
RespCode == [kind |-> "response", ok |-> TRUE, status |-> 200, text |-> "",
             json |-> [result |-> [code |-> "abc", expiresIn |-> 600]]]
RespUnauthorized == [kind |-> "response", ok |-> FALSE, status |-> 401,
                     text |-> "{\"error\":\"invalid_grant\"}",
                     json |-> [error |-> "invalid_grant"]]
RespNullResult == [kind |-> "response", ok |-> TRUE, status |-> 200,
                   text |-> "", json |-> [result |-> [json |-> "null"]]]
RespZeroResult == [kind |-> "response", ok |-> TRUE, status |-> 200,
                   text |-> "", json |-> [result |-> [json |-> "0"]]]

ApiOutcomes ==
    FetchOutcomes \cup
    { RespToken, RespCode, RespUnauthorized, RespNullResult, RespZeroResult }

\* arguments of the calls of the functions of api.ts
TokenParams ==
    { [appId |-> "app", code |-> "abc", codeVerifier |-> "verifier-1"],
      [appId |-> "app", appSecret |-> "s3cret", code |-> "abc",
       codeVerifier |-> "verifier-1"] }
AuthorizeParams ==
    { [appId |-> "app", uid |-> "u1", codeChallenge |-> "S256(verifier-1)",
       codeChallengeMethod |-> "S256"] }
Environments == {Undefined, "production", "development", "staging"}

(***************************************************************************)
(* State.                                                                  *)
(***************************************************************************)
VARIABLES
    cfg,            \* the configuration object passed to new TreeVizOAuth(...)
    client,         \* the constructed TreeVizOAuth instance, or the thrown error
    req,            \* per signIn invocation: its closure (popup, verifier,
                    \* promise) and the exchange requests it issued through fetch
    listeners,      \* window's "message" listener list, in registration order
    timers,         \* the active setInterval handles (one per invocation)
    bus,            \* posted messages queued as tasks of the page
    sessionStorage, \* the two PKCE entries of window.sessionStorage
    rng,            \* number of verifiers drawn from crypto.getRandomValues
    api             \* one call of a function other than signIn (getConfig,
                    \* or a function of api.ts or pkce.ts called on its own):
                    \* its requests and what it returned or threw

vars == <<cfg, client, req, listeners, timers, bus, sessionStorage, rng, api>>

Pending == [state |-> "pending"]

\* no URL has been handed to window.open yet
NoUrl == [kind |-> "none"]

\* no function of api.ts has been called
ApiIdle == [phase |-> "idle"]

NewRequest ==
    [pc |-> "idle", popup |-> "none", popupUrl |-> NoUrl,
     codeVerifier |-> Null, codeChallenge |-> Null,
     promise |-> Pending, fetches |-> <<>>, log |-> <<>>]

\* the part of the state the handlers of the page read and write
World ==
    [req |-> req, listeners |-> listeners, timers |-> timers]

(***************************************************************************)
(* Constructor.                                                            *)
(***************************************************************************)
\* const usePKCE = config.usePKCE !== false
UsePKCE(config) == ~("usePKCE" \in DOMAIN config /\ config.usePKCE = FALSE)

\* faulty variant: the appSecret of a legacy configuration is not validated
Constructor_NoSecretCheck(config) ==
    IF ~Truthy(Get(config, "appId"))
    THEN [ok |-> FALSE, error |-> Err("TreeViz OAuth: appId is required")]
    ELSE IF UsePKCE(config) /\ ~Truthy(Get(config, "exchangeTokenUrl"))
    THEN [ok |-> FALSE,
          error |-> Err("TreeViz OAuth: exchangeTokenUrl is required when using PKCE flow")]
    ELSE [ok |-> TRUE,
          appId |-> config.appId,
          appSecret |-> Get(config, "appSecret"),
          scopes |-> IF "scopes" \in DOMAIN config
                     THEN config.scopes ELSE DEFAULT_OAUTH_SCOPES,
          popupWidth |-> IF "popupWidth" \in DOMAIN config
                            /\ config.popupWidth # 0
                         THEN config.popupWidth ELSE 600,
          popupHeight |-> IF "popupHeight" \in DOMAIN config
                             /\ config.popupHeight # 0
                          THEN config.popupHeight ELSE 700,
          usePKCE |-> UsePKCE(config),
          exchangeTokenUrl |-> Get(config, "exchangeTokenUrl"),
          environment |-> IF Truthy(Get(config, "environment"))
                          THEN config.environment ELSE "production"]

\* faulty variant: the exchangeTokenUrl of a PKCE configuration is not
\* validated
Constructor_NoUrlCheck(config) ==
    IF ~Truthy(Get(config, "appId"))
    THEN [ok |-> FALSE, error |-> Err("TreeViz OAuth: appId is required")]
    ELSE IF ~UsePKCE(config) /\ ~Truthy(Get(config, "appSecret"))
    THEN [ok |-> FALSE,
          error |-> Err("TreeViz OAuth: appSecret is required when usePKCE is false")]
    ELSE [ok |-> TRUE,
          appId |-> config.appId,
          appSecret |-> Get(config, "appSecret"),
          scopes |-> IF "scopes" \in DOMAIN config
                     THEN config.scopes ELSE DEFAULT_OAUTH_SCOPES,
          popupWidth |-> IF "popupWidth" \in DOMAIN config
                            /\ config.popupWidth # 0
                         THEN config.popupWidth ELSE 600,
          popupHeight |-> IF "popupHeight" \in DOMAIN config
                             /\ config.popupHeight # 0
                          THEN config.popupHeight ELSE 700,
          usePKCE |-> UsePKCE(config),
          exchangeTokenUrl |-> Get(config, "exchangeTokenUrl"),
          environment |-> IF Truthy(Get(config, "environment"))
                          THEN config.environment ELSE "production"]

Constructor(config) ==
    IF ~Truthy(Get(config, "appId"))
    THEN [ok |-> FALSE, error |-> Err("TreeViz OAuth: appId is required")]
    ELSE IF ~UsePKCE(config) /\ ~Truthy(Get(config, "appSecret"))
    THEN [ok |-> FALSE,
          error |-> Err("TreeViz OAuth: appSecret is required when usePKCE is false")]
    ELSE IF UsePKCE(config) /\ ~Truthy(Get(config, "exchangeTokenUrl"))
    THEN [ok |-> FALSE,
          error |-> Err("TreeViz OAuth: exchangeTokenUrl is required when using PKCE flow")]
    ELSE [ok |-> TRUE,
          appId |-> config.appId,
          appSecret |-> Get(config, "appSecret"),
          scopes |-> IF "scopes" \in DOMAIN config
                     THEN config.scopes ELSE DEFAULT_OAUTH_SCOPES,
          popupWidth |-> IF "popupWidth" \in DOMAIN config
                            /\ config.popupWidth # 0
                         THEN config.popupWidth ELSE 600,
          popupHeight |-> IF "popupHeight" \in DOMAIN config
                             /\ config.popupHeight # 0
                          THEN config.popupHeight ELSE 700,
          usePKCE |-> UsePKCE(config),
          exchangeTokenUrl |-> Get(config, "exchangeTokenUrl"),
          environment |-> IF Truthy(Get(config, "environment"))
                          THEN config.environment ELSE "production"]

\* faulty variant: the stored secret is returned with the rest
GetConfig_WithSecret(this) ==
    [environment |-> this.environment,
     appId |-> this.appId,
     appSecret |-> this.appSecret,
     scopes |-> this.scopes,
     popupWidth |-> this.popupWidth,
     popupHeight |-> this.popupHeight,
     usePKCE |-> this.usePKCE,
     exchangeTokenUrl |-> IF Truthy(this.exchangeTokenUrl)
                          THEN this.exchangeTokenUrl ELSE ""]

\* getConfig() (lines 291-301)
GetConfig(this) ==
    [environment |-> this.environment,
     appId |-> this.appId,
     scopes |-> this.scopes,
     popupWidth |-> this.popupWidth,
     popupHeight |-> this.popupHeight,
     usePKCE |-> this.usePKCE,
     exchangeTokenUrl |-> IF Truthy(this.exchangeTokenUrl)
                          THEN this.exchangeTokenUrl ELSE ""]

(***************************************************************************)
(* Effects on one invocation's closure; each leaves its mark in the log so *)
(* that the order of effects inside one handler stays visible.             *)
(***************************************************************************)
Mark(w, r, what) == [w EXCEPT !.req[r].log = Append(@, what)]

\* resolve(value) of the promise executor: only the first settle counts
Resolve(w, r, value) ==
    Mark([w EXCEPT !.req[r].promise =
              IF @.state = "pending"
              THEN [state |-> "resolved", value |-> value] ELSE @],
         r, "resolve")

\* reject(reason) of the promise executor: only the first settle counts
Reject(w, r, reason) ==
    Mark([w EXCEPT !.req[r].promise =
              IF @.state = "pending"
              THEN [state |-> "rejected", reason |-> reason] ELSE @],
         r, "reject")

RemoveOne(s, x) == SelectSeq(s, LAMBDA y : y # x)

\* window.removeEventListener("message", messageHandler)
RemoveListener(w, r) ==
    Mark([w EXCEPT !.listeners = RemoveOne(@, r)], r, "removeEventListener")

\* clearInterval(checkClosed)
ClearTimer(w, r) ==
    Mark([w EXCEPT !.timers = @ \ {r}], r, "clearInterval")

\* popup.close()
ClosePopupHandle(w, r) ==
    Mark([w EXCEPT !.req[r].popup = "closed"], r, "popup.close")


\* the terminal branch a handler entered (lines 186, 257, 277)
EnterBranch(w, r, branch) == Mark(w, r, branch)

(***************************************************************************)
(* PKCE helpers.  A verifier is a string identified by the index of the    *)
(* random draw that produced it; the SHA-256 challenge of a verifier is an *)
(* injective image of it from which the verifier cannot be read off.       *)
(***************************************************************************)
GenerateCodeVerifier(drawn) == "verifier-" \o ToString(drawn + 1)

GenerateCodeChallenge(verifier) == "S256(" \o verifier \o ")"

(***************************************************************************)
(* exchangeCodeWithBackend: the request it issues, and what it returns or  *)
(* throws for an answer of the endpoint.                                   *)
(***************************************************************************)
\* a fetch the endpoint has not answered yet
NoAnswer == [kind |-> "none"]

\* the Response fetch resolves with once the headers of the answer are in:
\* its status is known, its body is not read yet
ResponseHead(out) ==
    [kind |-> "response", ok |-> out.ok, status |-> out.status]

ExchangeRequest(r, exchangeUrl, code, codeVerifier) ==
    [by |-> r, url |-> exchangeUrl, method |-> "POST",
     body |-> [data |-> [code |-> code, codeVerifier |-> codeVerifier]],
     pending |-> TRUE, answer |-> NoAnswer, read |-> FALSE]

\* !result.result: the parsed body has no result, or a falsy one
NoResult(json) == "result" \notin DOMAIN json \/ json.result \in JsonFalsy

ExchangeCodeWithBackend(out) ==
    IF out.kind = "throw"
    THEN [threw |-> TRUE, value |-> out.value]
    ELSE IF ~out.ok
    THEN [threw |-> TRUE,
          value |-> Err("Backend token exchange failed ("
                        \o ToString(out.status) \o "): " \o out.text)]
    ELSE IF NoResult(out.json)
    THEN [threw |-> TRUE, value |-> Err(InvalidEnvelopeMessage)]
    ELSE [threw |-> FALSE, value |-> out.json.result]

\* environment: "production" | "development" = "production"
DefaultEnvironment(environment) ==
    IF environment = Undefined THEN "production" ELSE environment

\* the request of exchangeAuthorizationCode (lines 150-161)
TokenRequest(params, environment) ==
    [by |-> 0,
     url |-> Get(TREEVIZ_TOKEN_ENDPOINTS, DefaultEnvironment(environment)),
     method |-> "POST", body |-> [data |-> params],
     pending |-> TRUE, answer |-> NoAnswer, read |-> FALSE]

\* faulty variant: the status of the response is not looked at
ExchangeAuthorizationCode_NoStatusCheck(out) ==
    IF out.kind = "throw"
    THEN [threw |-> TRUE, value |-> out.value]
    ELSE IF NoResult(out.json)
    THEN [threw |-> TRUE,
          value |-> Err("Invalid response from TreeViz token endpoint")]
    ELSE [threw |-> FALSE, value |-> out.json.result]

ExchangeAuthorizationCode(out) ==
    IF out.kind = "throw"
    THEN [threw |-> TRUE, value |-> out.value]
    ELSE IF ~out.ok
    THEN [threw |-> TRUE,
          value |-> Err("TreeViz token exchange failed ("
                        \o ToString(out.status) \o "): " \o out.text)]
    ELSE IF NoResult(out.json)
    THEN [threw |-> TRUE,
          value |-> Err("Invalid response from TreeViz token endpoint")]
    ELSE [threw |-> FALSE, value |-> out.json.result]

\* the request of generateAuthorizationCode (lines 192-203)
AuthorizeRequest(params, environment) ==
    [by |-> 0,
     url |-> Get(TREEVIZ_AUTHORIZE_ENDPOINTS,
                 DefaultEnvironment(environment)),
     method |-> "POST", body |-> [data |-> params],
     pending |-> TRUE, answer |-> NoAnswer, read |-> FALSE]

GenerateAuthorizationCode(out) ==
    IF out.kind = "throw"
    THEN [threw |-> TRUE, value |-> out.value]
    ELSE IF ~out.ok
    THEN [threw |-> TRUE,
          value |-> Err("TreeViz authorization failed ("
                        \o ToString(out.status) \o "): " \o out.text)]
    ELSE IF NoResult(out.json)
    THEN [threw |-> TRUE,
          value |-> Err("Invalid response from TreeViz authorize endpoint")]
    ELSE [threw |-> FALSE, value |-> out.json.result]

(***************************************************************************)
(* messageHandler.                                                         *)
(***************************************************************************)
\* faulty variant: the caught value is passed to reject as it is
CatchReject_NoWrap(w, r, error) == Reject(w, r, error)

\* catch (error) { reject(error instanceof Error ? error : new Error(...)) }
CatchReject(w, r, error) ==
    Reject(w, r, IF error.isError THEN error ELSE Err(ExchangeFailedMessage))

\* faulty variant: the handler forgets clearInterval
Teardown_KeepTimer(w, r) ==
    ClosePopupHandle(RemoveListener(w, r), r)

\* faulty variant: the handler forgets window.removeEventListener
Teardown_KeepListener(w, r) ==
    ClosePopupHandle(ClearTimer(w, r), r)

\* lines 188-190 and 262-264
Teardown(w, r) ==
    ClosePopupHandle(ClearTimer(RemoveListener(w, r), r), r)

\* the call of exchangeCodeWithBackend up to its await of fetch
StartExchange(w, r, code) ==
    Mark([w EXCEPT !.req[r].fetches =
              Append(@, ExchangeRequest(r, client.exchangeTokenUrl, code,
                                        w.req[r].codeVerifier))],
         r, "fetch")

\* the legacy result built from the message
\* faulty variant: the optional fields are copied without `|| null`
LegacyResult_KeepEmpty(data) ==
    [token |-> data.token,
     uid |-> data.uid,
     email |-> Get(data, "email"),
     displayName |-> Get(data, "displayName"),
     photoURL |-> Get(data, "photoURL")]

LegacyResult(data) ==
    [token |-> data.token,
     uid |-> data.uid,
     email |-> OrNull(Get(data, "email")),
     displayName |-> OrNull(Get(data, "displayName")),
     photoURL |-> OrNull(Get(data, "photoURL"))]

\* faulty variant: a token and uid in the message win over the exchange
SuccessBody_TokenFirst(w, r, data) ==
    IF Truthy(Get(data, "token")) /\ Truthy(Get(data, "uid"))
    THEN Resolve(w, r, LegacyResult(data))
    ELSE IF client.usePKCE /\ Truthy(Get(data, "code"))
                           /\ Truthy(w.req[r].codeVerifier)
    THEN StartExchange(w, r, data.code)
    ELSE CatchReject(w, r, Err(InvalidResponseMessage))

\* faulty variant: the direct-token branch is not restricted to legacy mode
SuccessBody_TokenInAnyMode(w, r, data) ==
    IF client.usePKCE /\ Truthy(Get(data, "code")) /\ Truthy(w.req[r].codeVerifier)
    THEN StartExchange(w, r, data.code)
    ELSE IF Truthy(Get(data, "token")) /\ Truthy(Get(data, "uid"))
    THEN Resolve(w, r, LegacyResult(data))
    ELSE CatchReject(w, r, Err(InvalidResponseMessage))

\* the try block of the SUCCESS branch, up to its first await
\* faulty variant: a code is exchanged whatever the mode of the client
SuccessBody_ExchangeInAnyMode(w, r, data) ==
    IF Truthy(Get(data, "code"))
    THEN StartExchange(w, r, data.code)
    ELSE IF ~client.usePKCE /\ Truthy(Get(data, "token"))
                            /\ Truthy(Get(data, "uid"))
    THEN Resolve(w, r, LegacyResult(data))
    ELSE CatchReject(w, r, Err(InvalidResponseMessage))

SuccessBody(w, r, data) ==
    IF client.usePKCE /\ Truthy(Get(data, "code")) /\ Truthy(w.req[r].codeVerifier)
    THEN StartExchange(w, r, data.code)
    ELSE IF ~client.usePKCE /\ Truthy(Get(data, "token"))
                            /\ Truthy(Get(data, "uid"))
    THEN Resolve(w, r, LegacyResult(data))
    ELSE CatchReject(w, r, Err(InvalidResponseMessage))

\* faulty variant: the exchange is started before the flow is torn down
HandleSuccess_ExchangeFirst(w, r, ev) ==
    Teardown(SuccessBody(EnterBranch(w, r, "SUCCESS"), r, ev.data), r)

HandleSuccess(w, r, ev) ==
    SuccessBody(Teardown(EnterBranch(w, r, "SUCCESS"), r), r, ev.data)

\* faulty variant: no fallback text when the message has no error
HandleError_NoFallback(w, r, ev) ==
    Reject(Teardown(EnterBranch(w, r, "ERROR"), r), r,
           Err(Get(ev.data, "error")))

HandleError(w, r, ev) ==
    Reject(Teardown(EnterBranch(w, r, "ERROR"), r), r,
           Err(IF Truthy(Get(ev.data, "error"))
               THEN ev.data.error ELSE AuthFailedMessage))

\* faulty variant: every message with a type other than SUCCESS is an error
MessageHandler_NoTypeFilter(w, r, ev) ==
    IF "isNull" \in DOMAIN ev.data \/ ~Truthy(Get(ev.data, "type"))
    THEN w
    ELSE IF ev.data.type = SUCCESS
    THEN HandleSuccess(w, r, ev)
    ELSE HandleError(w, r, ev)

\* faulty variant: a handler acts on the messages of its own popup only
MessageHandler_ChecksSource(w, r, ev) ==
    IF ev.src # r
    THEN w
    ELSE IF "isNull" \in DOMAIN ev.data \/ ~Truthy(Get(ev.data, "type"))
    THEN w
    ELSE IF ev.data.type # SUCCESS /\ ev.data.type # ERROR
    THEN w
    ELSE IF ev.data.type = SUCCESS
    THEN HandleSuccess(w, r, ev)
    ELSE HandleError(w, r, ev)

MessageHandler(w, r, ev) ==
    IF "isNull" \in DOMAIN ev.data \/ ~Truthy(Get(ev.data, "type"))
    THEN w
    ELSE IF ev.data.type # SUCCESS /\ ev.data.type # ERROR
    THEN w
    ELSE IF ev.data.type = SUCCESS
    THEN HandleSuccess(w, r, ev)
    ELSE HandleError(w, r, ev)

\* faulty variant: the uid is read from the wrong field of the user payload
PkceResult_WrongUid(result) ==
    [token |-> Get(result, "firebaseToken"),
     uid |-> Get(result.user, "treevizUid"),
     email |-> Get(result.user, "email"),
     displayName |-> Get(result.user, "displayName"),
     photoURL |-> Get(result.user, "photoURL")]

\* the PKCE result built from the exchange answer (lines 215-226)
PkceResult(result) ==
    [token |-> Get(result, "firebaseToken"),
     uid |-> Get(result.user, "uid"),
     email |-> Get(result.user, "email"),
     displayName |-> Get(result.user, "displayName"),
     photoURL |-> Get(result.user, "photoURL")]

\* faulty variant: the try block has no catch, a thrown exchange is dropped
AfterExchange_DropsThrow(w, r, answer) ==
    IF answer.threw
    THEN w
    ELSE IF "user" \notin DOMAIN answer.value
    THEN CatchReject(w, r,
             Err("Cannot read properties of undefined (reading 'uid')"))
    ELSE Resolve(w, r, PkceResult(answer.value))

\* the rest of the try block once exchangeCodeWithBackend has settled
AfterExchange(w, r, answer) ==
    IF answer.threw
    THEN CatchReject(w, r, answer.value)
    ELSE IF "user" \notin DOMAIN answer.value
    THEN CatchReject(w, r,
             Err("Cannot read properties of undefined (reading 'uid')"))
    ELSE Resolve(w, r, PkceResult(answer.value))

(***************************************************************************)
(* The popup URL: getAuthUrl, authParams and the URL given to window.open. *)
(* The query string is kept as the record of its parameters.               *)
(***************************************************************************)
\* TREEVIZ_OAUTH_URLS[this.environment]
GetAuthUrl(environment) ==
    IF environment \in DOMAIN TREEVIZ_OAUTH_URLS
    THEN TREEVIZ_OAUTH_URLS[environment] ELSE Undefined

\* scopes.join(" ")
RECURSIVE JoinScopes(_)
JoinScopes(scopes) ==
    IF scopes = <<>> THEN ""
    ELSE IF Len(scopes) = 1 THEN scopes[1]
    ELSE scopes[1] \o " " \o JoinScopes(Tail(scopes))

\* faulty variant: the verifier is put into the query string as well
AuthParams_WithVerifier(w, r) ==
    IF client.usePKCE
    THEN [appId |-> client.appId,
          origin |-> Origin,
          callbackUri |-> Origin \o "/auth/callback",
          scope |-> JoinScopes(client.scopes),
          code_challenge |-> w.req[r].codeChallenge,
          code_challenge_method |-> "S256",
          code_verifier |-> w.req[r].codeVerifier]
    ELSE [appId |-> client.appId,
          origin |-> Origin,
          callbackUri |-> Origin \o "/auth/callback",
          scope |-> JoinScopes(client.scopes),
          appSecret |-> client.appSecret]

\* authParams as they stand when the promise executor runs
\* faulty variant: a configured appSecret is sent in PKCE mode as well
AuthParams_SecretInPkce(w, r) ==
    IF client.usePKCE /\ ~Truthy(client.appSecret)
    THEN [appId |-> client.appId,
          origin |-> Origin,
          callbackUri |-> Origin \o "/auth/callback",
          scope |-> JoinScopes(client.scopes),
          code_challenge |-> w.req[r].codeChallenge,
          code_challenge_method |-> "S256"]
    ELSE IF client.usePKCE
    THEN [appId |-> client.appId,
          origin |-> Origin,
          callbackUri |-> Origin \o "/auth/callback",
          scope |-> JoinScopes(client.scopes),
          code_challenge |-> w.req[r].codeChallenge,
          code_challenge_method |-> "S256",
          appSecret |-> client.appSecret]
    ELSE [appId |-> client.appId,
          origin |-> Origin,
          callbackUri |-> Origin \o "/auth/callback",
          scope |-> JoinScopes(client.scopes),
          appSecret |-> client.appSecret]

AuthParams(w, r) ==
    IF client.usePKCE
    THEN [appId |-> client.appId,
          origin |-> Origin,
          callbackUri |-> Origin \o "/auth/callback",
          scope |-> JoinScopes(client.scopes),
          code_challenge |-> w.req[r].codeChallenge,
          code_challenge_method |-> "S256"]
    ELSE [appId |-> client.appId,
          origin |-> Origin,
          callbackUri |-> Origin \o "/auth/callback",
          scope |-> JoinScopes(client.scopes),
          appSecret |-> client.appSecret]

\* popupUrl of line 140
PopupUrl(w, r) ==
    [base |-> GetAuthUrl(client.environment),
     path |-> TREEVIZ_OAUTH_CALLBACK_PATH,
     params |-> AuthParams(w, r)]

(***************************************************************************)
(* The promise executor of signIn (lines 130-284) and checkClosed.         *)
(***************************************************************************)
\* faulty variant: listener and timer are set up before the handle is tested
Executor_RegisterFirst(w, r, opened) ==
    IF ~opened
    THEN Reject(Mark(Mark(
                [w EXCEPT !.req[r].pc = "running",
                          !.req[r].popupUrl = PopupUrl(w, r),
                          !.listeners = Append(@, r),
                          !.timers = @ \cup {r}],
                r, "addEventListener"), r, "setInterval"),
             r, Err(PopupBlockedMessage))
    ELSE Mark(Mark(Mark(
            [w EXCEPT !.req[r].pc = "running",
                      !.req[r].popup = "open",
                      !.req[r].popupUrl = PopupUrl(w, r),
                      !.listeners = Append(@, r),
                      !.timers = @ \cup {r}],
            r, "window.open"), r, "addEventListener"), r, "setInterval")

Executor(w, r, opened) ==
    IF ~opened
    THEN Reject([w EXCEPT !.req[r].pc = "running",
                          !.req[r].popupUrl = PopupUrl(w, r)],
                r, Err(PopupBlockedMessage))
    ELSE Mark(Mark(Mark(
            [w EXCEPT !.req[r].pc = "running",
                      !.req[r].popup = "open",
                      !.req[r].popupUrl = PopupUrl(w, r),
                      !.listeners = Append(@, r),
                      !.timers = @ \cup {r}],
            r, "window.open"), r, "addEventListener"), r, "setInterval")

\* faulty variant: the closure poll tests the handle instead of popup.closed
CheckClosed_TestsHandle(w, r) ==
    IF w.req[r].popup = "none"
    THEN Reject(RemoveListener(ClearTimer(EnterBranch(w, r, "CLOSED"), r), r),
                r, Err(CancelledMessage))
    ELSE w

\* faulty variant: the closure poll rejects without removing the listener
CheckClosed_LeakListener(w, r) ==
    IF w.req[r].popup = "closed"
    THEN Reject(ClearTimer(EnterBranch(w, r, "CLOSED"), r),
                r, Err(CancelledMessage))
    ELSE w

\* faulty variant: the poll gives up whether or not the popup is closed
CheckClosed_Timeout(w, r) ==
    Reject(RemoveListener(ClearTimer(EnterBranch(w, r, "CLOSED"), r), r),
           r, Err(CancelledMessage))

\* faulty variant: the closure poll rejects without clearing its own timer
CheckClosed_KeepTimer(w, r) ==
    IF w.req[r].popup = "closed"
    THEN Reject(RemoveListener(EnterBranch(w, r, "CLOSED"), r),
                r, Err(CancelledMessage))
    ELSE w

CheckClosed(w, r) ==
    IF w.req[r].popup = "closed"
    THEN Reject(RemoveListener(ClearTimer(EnterBranch(w, r, "CLOSED"), r), r),
                r, Err(CancelledMessage))
    ELSE w

\* dispatch of one message event to the listeners registered when it starts
RECURSIVE Dispatch(_, _, _)
Dispatch(w, snapshot, ev) ==
    IF snapshot = <<>>
    THEN w
    ELSE Dispatch(
            IF \E i \in 1..Len(w.listeners) : w.listeners[i] = Head(snapshot)
            THEN MessageHandler(w, Head(snapshot), ev) ELSE w,
            Tail(snapshot), ev)

(***************************************************************************)
(* Actions.                                                                *)
(***************************************************************************)
Commit(w) ==
    /\ req' = w.req
    /\ listeners' = w.listeners
    /\ timers' = w.timers

Init ==
    /\ cfg \in Configs
    /\ client = Constructor(cfg)
    /\ req = [r \in Calls |-> NewRequest]
    /\ listeners = <<>>
    /\ timers = {}
    /\ bus = <<>>
    /\ sessionStorage = [pkce_code_verifier |-> Null,
                         pkce_code_challenge |-> Null]
    /\ rng = 0
    /\ api = ApiIdle

\* a call of signIn(), up to its first await (PKCE) or to its end (legacy)
SignIn(r) ==
    /\ client.ok
    /\ req[r].pc = "idle"
    /\ r > 1 => req[r - 1].pc # "idle"
    /\ IF client.usePKCE
       THEN /\ rng' = rng + 1
            /\ req' = [req EXCEPT ![r].pc = "digest",
                                  ![r].codeVerifier = GenerateCodeVerifier(rng)]
            /\ UNCHANGED <<listeners, timers>>
       ELSE /\ \E opened \in BOOLEAN : Commit(Executor(World, r, opened))
            /\ UNCHANGED rng
    /\ UNCHANGED <<cfg, api, client, bus, sessionStorage>>

\* signIn() resumed once generateCodeChallenge has resolved (lines 107-284)
SignInResume(r) ==
    /\ req[r].pc = "digest"
    /\ LET challenge == GenerateCodeChallenge(req[r].codeVerifier)
       IN /\ sessionStorage' =
                 [pkce_code_verifier |-> req[r].codeVerifier,
                  pkce_code_challenge |-> challenge]
          /\ \E opened \in BOOLEAN :
                 Commit(Executor([World EXCEPT !.req[r].codeChallenge = challenge],
                                 r, opened))
    /\ UNCHANGED <<cfg, api, client, bus, rng>>

\* a window posts a message to the page: window 0 is any other window,
\* window r is the popup of invocation r, which must still be open.
\* A message is modelled only while some listener is registered or some
\* invocation can still register one: any other message is dispatched to
\* no handler at all.
PostMessage(src, data) ==
    /\ Len(bus) < MaxBus
    /\ listeners # <<>> \/ \E r \in Calls : req[r].pc # "running"
    /\ src # 0 => req[src].popup = "open"
    /\ bus' = Append(bus, [src |-> src, data |-> data])
    /\ UNCHANGED <<cfg, api, client, req, listeners, timers, sessionStorage, rng>>

\* the page runs the task of the oldest posted message
DeliverMessage ==
    /\ bus # <<>>
    /\ Commit(Dispatch(World, listeners, Head(bus)))
    /\ bus' = Tail(bus)
    /\ UNCHANGED <<cfg, api, client, sessionStorage, rng>>

\* the user closes the popup, or the popup's page calls window.close()
PopupClosed(r) ==
    /\ req[r].popup = "open"
    /\ req' = [req EXCEPT ![r].popup = "closed"]
    /\ UNCHANGED <<cfg, api, client, listeners, timers, bus, sessionStorage, rng>>

\* one tick of the setInterval of invocation r
Tick(r) ==
    /\ r \in timers
    /\ Commit(CheckClosed(World, r))
    /\ UNCHANGED <<cfg, api, client, bus, sessionStorage, rng>>

\* fetch number i of invocation r settles.  When the headers of the answer
\* are in, fetch resolves with the Response and exchangeCodeWithBackend goes
\* on to its await of response.text() / response.json(): the page is back
\* in its event loop with the promise of signIn still pending.  When fetch
\* rejects, the throw runs through exchangeCodeWithBackend into the catch
\* of the handler in the same task.
ExchangeRespond(r, i, out) ==
    /\ i \in 1..Len(req[r].fetches)
    /\ req[r].fetches[i].pending
    /\ IF out.kind = "throw"
       THEN Commit(AfterExchange(
                [World EXCEPT !.req[r].fetches[i].pending = FALSE,
                              !.req[r].fetches[i].answer = out],
                r, ExchangeCodeWithBackend(out)))
       ELSE Commit([World EXCEPT !.req[r].fetches[i].pending = FALSE,
                                 !.req[r].fetches[i].answer =
                                     ResponseHead(out)])
    /\ UNCHANGED <<cfg, api, client, bus, sessionStorage, rng>>

\* the body of answer `out` to fetch number i of invocation r has been
\* read: exchangeCodeWithBackend returns or throws, and the handler that
\* awaited it runs on
ExchangeBodyRead(r, i, out) ==
    /\ i \in 1..Len(req[r].fetches)
    /\ ~req[r].fetches[i].pending
    /\ ~req[r].fetches[i].read
    /\ out.kind = "response"
    /\ req[r].fetches[i].answer = ResponseHead(out)
    /\ Commit(AfterExchange([World EXCEPT !.req[r].fetches[i].read = TRUE,
                                          !.req[r].fetches[i].answer = out],
                            r, ExchangeCodeWithBackend(out)))
    /\ UNCHANGED <<cfg, api, client, bus, sessionStorage, rng>>

Next ==
    \/ \E r \in Calls : SignIn(r)
    \/ \E r \in Calls : SignInResume(r)
    \/ \E src \in 0..MaxCalls, data \in Messages : PostMessage(src, data)
    \/ DeliverMessage
    \/ \E r \in Calls : PopupClosed(r)
    \/ \E r \in Calls : Tick(r)
    \/ \E r \in Calls, out \in FetchOutcomes :
          \E i \in 1..Len(req[r].fetches) : ExchangeRespond(r, i, out)
    \/ \E r \in Calls, out \in FetchOutcomes :
          \E i \in 1..Len(req[r].fetches) : ExchangeBodyRead(r, i, out)

Spec == Init /\ [][Next]_vars

(***************************************************************************)
(* Construction from every configuration, followed by calls of signIn up   *)
(* to the opening of the popup.                                            *)
(***************************************************************************)
InitConfig ==
    /\ cfg \in AllConfigs
    /\ client = Constructor(cfg)
    /\ req = [r \in Calls |-> NewRequest]
    /\ listeners = <<>>
    /\ timers = {}
    /\ bus = <<>>
    /\ sessionStorage = [pkce_code_verifier |-> Null,
                         pkce_code_challenge |-> Null]
    /\ rng = 0
    /\ api = ApiIdle

\* a call of getConfig() on the constructed instance
GetConfigCall ==
    /\ client.ok
    /\ api = ApiIdle
    /\ api' = [phase |-> "done", fn |-> "getConfig", requests |-> <<>>,
               returned |-> [threw |-> FALSE, value |-> GetConfig(client)]]
    /\ UNCHANGED <<cfg, client, req, listeners, timers, bus, sessionStorage,
                   rng>>

NextConfig ==
    \/ \E r \in Calls : SignIn(r)
    \/ \E r \in Calls : SignInResume(r)
    \/ GetConfigCall

SpecConfig == InitConfig /\ [][NextConfig]_vars

(***************************************************************************)
(* The functions of api.ts called on their own, as a backend does: one     *)
(* call, the answer of the endpoint, and what the call returns or throws.  *)
(***************************************************************************)
ApiFunctions ==
    {"exchangeCodeWithBackend", "exchangeAuthorizationCode",
     "generateAuthorizationCode"}

\* what function fn makes of the answer of its endpoint
ApiReturn(fn, out) ==
    IF fn = "exchangeCodeWithBackend" THEN ExchangeCodeWithBackend(out)
    ELSE IF fn = "exchangeAuthorizationCode" THEN ExchangeAuthorizationCode(out)
    ELSE GenerateAuthorizationCode(out)

\* a call of fn, up to its await of fetch
ApiCall(fn, request) ==
    /\ api = ApiIdle
    /\ api' = [phase |-> "awaiting", fn |-> fn, requests |-> <<request>>]
    /\ UNCHANGED <<cfg, client, req, listeners, timers, bus, sessionStorage,
                   rng>>

\* fetch settles: with the headers of the answer in, the call goes on to
\* its await of response.text() / response.json(); when fetch rejects, the
\* call throws at once
ApiRespond(out) ==
    /\ api.phase = "awaiting"
    /\ api' = IF out.kind = "throw"
              THEN [phase |-> "done", fn |-> api.fn,
                    requests |-> [api.requests EXCEPT ![1].pending = FALSE,
                                                      ![1].answer = out],
                    returned |-> ApiReturn(api.fn, out)]
              ELSE [phase |-> "reading", fn |-> api.fn,
                    requests |-> [api.requests EXCEPT
                                      ![1].pending = FALSE,
                                      ![1].answer = ResponseHead(out)]]
    /\ UNCHANGED <<cfg, client, req, listeners, timers, bus, sessionStorage,
                   rng>>

\* the body of answer `out` has been read and the call runs to its end
ApiBodyRead(out) ==
    /\ api.phase = "reading"
    /\ out.kind = "response"
    /\ api.requests[1].answer = ResponseHead(out)
    /\ api' = [phase |-> "done", fn |-> api.fn,
               requests |-> [api.requests EXCEPT ![1].read = TRUE,
                                                 ![1].answer = out],
               returned |-> ApiReturn(api.fn, out)]
    /\ UNCHANGED <<cfg, client, req, listeners, timers, bus, sessionStorage,
                   rng>>

NextApi ==
    \/ ApiCall("exchangeCodeWithBackend",
               ExchangeRequest(0, ExchangeUrl, "abc", "verifier-1"))
    \/ \E params \in TokenParams, environment \in Environments :
          ApiCall("exchangeAuthorizationCode",
                  TokenRequest(params, environment))
    \/ \E params \in AuthorizeParams, environment \in Environments :
          ApiCall("generateAuthorizationCode",
                  AuthorizeRequest(params, environment))
    \/ \E out \in ApiOutcomes : ApiRespond(out)
    \/ \E out \in ApiOutcomes : ApiBodyRead(out)

SpecApi == Init /\ [][NextApi]_vars

(***************************************************************************)
(* pkce.ts at the level of bytes and characters.  A string is the sequence *)
(* of its characters.  (The flow above names a produced verifier by the    *)
(* index of its draw; here the verifier is spelled out.)                   *)
(***************************************************************************)
\* new Uint8Array(32)
VerifierBytes == 32
\* the values of one element of a Uint8Array
ByteValues == 256
\* the arrays crypto.getRandomValues is taken to fill in: seed, seed +
\* stride, seed + 2 * stride, ... for every seed and strides up to MaxStride
MaxStride == 2

RandomValues(seed, stride) ==
    [i \in 1..VerifierBytes |-> (seed + (i - 1) * stride) % ByteValues]

\* the alphabet of btoa
Base64Alphabet ==
    << "A", "B", "C", "D", "E", "F", "G", "H", "I", "J", "K", "L", "M",
       "N", "O", "P", "Q", "R", "S", "T", "U", "V", "W", "X", "Y", "Z",
       "a", "b", "c", "d", "e", "f", "g", "h", "i", "j", "k", "l", "m",
       "n", "o", "p", "q", "r", "s", "t", "u", "v", "w", "x", "y", "z",
       "0", "1", "2", "3", "4", "5", "6", "7", "8", "9", "+", "/" >>

\* btoa(String.fromCharCode(...buffer)): three bytes give four characters,
\* a rest of one or two bytes is padded with "="
RECURSIVE Btoa(_)
Btoa(bytes) ==
    IF bytes = <<>>
    THEN <<>>
    ELSE IF Len(bytes) = 1
    THEN << Base64Alphabet[(bytes[1] \div 4) + 1],
            Base64Alphabet[(bytes[1] % 4) * 16 + 1],
            "=", "=" >>
    ELSE IF Len(bytes) = 2
    THEN << Base64Alphabet[(bytes[1] \div 4) + 1],
            Base64Alphabet[(bytes[1] % 4) * 16 + (bytes[2] \div 16) + 1],
            Base64Alphabet[(bytes[2] % 16) * 4 + 1],
            "=" >>
    ELSE << Base64Alphabet[(bytes[1] \div 4) + 1],
            Base64Alphabet[(bytes[1] % 4) * 16 + (bytes[2] \div 16) + 1],
            Base64Alphabet[(bytes[2] % 16) * 4 + (bytes[3] \div 64) + 1],
            Base64Alphabet[(bytes[3] % 64) + 1] >>
         \o Btoa(SubSeq(bytes, 4, Len(bytes)))

\* str.replace(/c/g, by) for a character c and a character or "" as by
ReplaceAll(str, c, by) ==
    IF by = ""
    THEN SelectSeq(str, LAMBDA x : x # c)
    ELSE [i \in 1..Len(str) |-> IF str[i] = c THEN by ELSE str[i]]

\* faulty variant: the padding is left in place
Base64UrlEncode_KeepPadding(buffer) ==
    ReplaceAll(ReplaceAll(Btoa(buffer), "+", "-"), "/", "_")

Base64UrlEncode(buffer) ==
    ReplaceAll(ReplaceAll(ReplaceAll(Btoa(buffer), "+", "-"), "/", "_"),
               "=", "")

\* a call of generateCodeVerifier() whose random array is the given one
GenerateCodeVerifierCall(array) ==
    /\ api = ApiIdle
    /\ api' = [phase |-> "done", fn |-> "generateCodeVerifier",
               requests |-> <<>>, array |-> array,
               returned |-> [threw |-> FALSE,
                             value |-> Base64UrlEncode(array)]]
    /\ rng' = rng + 1
    /\ UNCHANGED <<cfg, client, req, listeners, timers, bus, sessionStorage>>

NextPkce ==
    \E seed \in 0..(ByteValues - 1), stride \in 0..MaxStride :
        GenerateCodeVerifierCall(RandomValues(seed, stride))

SpecPkce == Init /\ [][NextPkce]_vars

(***************************************************************************)
(* The popup flow over the SUCCESS messages and the exchange answers that  *)
(* tell the two modes apart: messages carrying a code, a token and uid, or *)
(* both, and answers with or without a token and a uid.  Same actions as   *)
(* Spec; `Mode` in the names below refers to client.usePKCE.               *)
(***************************************************************************)
\* a SUCCESS message with the deprecated direct fields and a code as well
MsgTokenAndCode == [type |-> SUCCESS, code |-> "xyz", expiresIn |-> 600,
                    token |-> "tok2", uid |-> "u2"]
\* a SUCCESS message whose uid is the empty string
MsgTokenEmptyUid == [type |-> SUCCESS, token |-> "tok", uid |-> ""]

ModeMessages == { MsgCode, MsgToken, MsgTokenAndCode, MsgTokenEmptyUid }

\* exchange answers with a result envelope that lacks firebaseToken, or
\* whose user has an empty uid
RespNoToken == [kind |-> "response", ok |-> TRUE, status |-> 200, text |-> "",
                json |-> [result |-> [user |-> GoodUser]]]
RespEmptyUid == [kind |-> "response", ok |-> TRUE, status |-> 200, text |-> "",
                 json |-> [result |-> [firebaseToken |-> "T",
                                       user |-> [uid |-> "", email |-> Null,
                                                 displayName |-> Null,
                                                 photoURL |-> Null]]]]

ModeOutcomes == { RespGood, RespNoToken, RespEmptyUid, RespNoEnvelope }

NextModes ==
    \/ \E r \in Calls : SignIn(r)
    \/ \E r \in Calls : SignInResume(r)
    \/ \E src \in 0..MaxCalls, data \in ModeMessages : PostMessage(src, data)
    \/ DeliverMessage
    \/ \E r \in Calls : PopupClosed(r)
    \/ \E r \in Calls : Tick(r)
    \/ \E r \in Calls, out \in ModeOutcomes :
          \E i \in 1..Len(req[r].fetches) : ExchangeRespond(r, i, out)
    \/ \E r \in Calls, out \in ModeOutcomes :
          \E i \in 1..Len(req[r].fetches) : ExchangeBodyRead(r, i, out)

SpecModes == Init /\ [][NextModes]_vars

(***************************************************************************)
(* The popup flow among messages that are not meant for it: a message      *)
(* event whose data is null, data without a type, and a type of some other *)
(* protocol, next to one SUCCESS and one ERROR message.  Same actions as   *)
(* Spec.                                                                   *)
(***************************************************************************)
NoiseMessages == { MsgCode, MsgDenied, MsgOther, MsgNoType, NullData }

NoiseOutcomes == { RespGood, RespServerError }

NextNoise ==
    \/ \E r \in Calls : SignIn(r)
    \/ \E r \in Calls : SignInResume(r)
    \/ \E src \in 0..MaxCalls, data \in NoiseMessages : PostMessage(src, data)
    \/ DeliverMessage
    \/ \E r \in Calls : PopupClosed(r)
    \/ \E r \in Calls : Tick(r)
    \/ \E r \in Calls, out \in NoiseOutcomes :
          \E i \in 1..Len(req[r].fetches) : ExchangeRespond(r, i, out)
    \/ \E r \in Calls, out \in NoiseOutcomes :
          \E i \in 1..Len(req[r].fetches) : ExchangeBodyRead(r, i, out)

SpecNoise == Init /\ [][NextNoise]_vars

(***************************************************************************)
(* The popup flow under the scheduling the browser guarantees: a queued    *)
(* message event is eventually dispatched, a running setInterval timer     *)
(* eventually ticks, a pending fetch eventually settles and the body of an *)
(* answer is eventually read.                                              *)
(* Only the popups the page opened post here, each a message with a code,  *)
(* with a direct token or with an error.                                   *)
(***************************************************************************)
LiveMessages == { MsgCode, MsgToken, MsgDenied }

LiveOutcomes == { RespGood, FetchThrowsError }

\* some pending fetch of invocation r settles
ExchangeSettles(r) ==
    \E out \in LiveOutcomes :
        \E i \in 1..Len(req[r].fetches) : ExchangeRespond(r, i, out)

\* the body of some answer to invocation r has been read
BodySettles(r) ==
    \E out \in LiveOutcomes :
        \E i \in 1..Len(req[r].fetches) : ExchangeBodyRead(r, i, out)

NextLive ==
    \/ \E r \in Calls : SignIn(r)
    \/ \E r \in Calls : SignInResume(r)
    \/ \E src \in Calls, data \in LiveMessages : PostMessage(src, data)
    \/ DeliverMessage
    \/ \E r \in Calls : PopupClosed(r)
    \/ \E r \in Calls : Tick(r)
    \/ \E r \in Calls : ExchangeSettles(r)
    \/ \E r \in Calls : BodySettles(r)

Fairness ==
    /\ WF_vars(DeliverMessage)
    /\ \A r \in Calls : WF_vars(Tick(r))
    /\ \A r \in Calls : WF_vars(ExchangeSettles(r))
    /\ \A r \in Calls : WF_vars(BodySettles(r))

SpecLive == Init /\ [][NextLive]_vars /\ Fairness

(***************************************************************************)
(* The secret-based client of src/src/client.ts: constructor, signIn with  *)
(* its messageHandler and checkClosed.  Its handler removes the listener   *)
(* and closes the popup and leaves the timer to the next tick.             *)
(***************************************************************************)
SecretCancelledMessage == "Authentication cancelled"

\* config.authUrl is kept as its text without trailing slashes and the
\* number of slashes that follow it
SecretAuthUrl == [text |-> "https://treeviz.com", slashes |-> 0]

SecretFullConfig ==
    [authUrl |-> SecretAuthUrl, appId |-> "app", appSecret |-> "s3cret"]

SecretConfigs ==
    { SecretFullConfig,
      [SecretFullConfig EXCEPT !.authUrl.slashes = 1],
      [appId |-> "app", appSecret |-> "s3cret"],
      [SecretFullConfig EXCEPT !.authUrl = [text |-> "", slashes |-> 0]],
      [authUrl |-> SecretAuthUrl, appId |-> "", appSecret |-> "s3cret"],
      [authUrl |-> SecretAuthUrl, appId |-> "app"] }

\* config.authUrl.replace(/\/$/, ""): one trailing slash is removed
DropTrailingSlash(url) ==
    [url EXCEPT !.slashes = IF @ > 0 THEN @ - 1 ELSE 0]

\* constructor (lines 29-51)
SecretConstructor(config) ==
    IF \/ "authUrl" \notin DOMAIN config
       \/ config.authUrl = [text |-> "", slashes |-> 0]
    THEN [ok |-> FALSE, error |-> Err("TreeViz OAuth: authUrl is required")]
    ELSE IF ~Truthy(Get(config, "appId"))
    THEN [ok |-> FALSE, error |-> Err("TreeViz OAuth: appId is required")]
    ELSE IF ~Truthy(Get(config, "appSecret"))
    THEN [ok |-> FALSE, error |-> Err("TreeViz OAuth: appSecret is required")]
    ELSE [ok |-> TRUE,
          authUrl |-> DropTrailingSlash(config.authUrl),
          appId |-> config.appId,
          appSecret |-> config.appSecret,
          scopes |-> IF "scopes" \in DOMAIN config
                     THEN config.scopes ELSE <<"email", "profile">>,
          callbackPath |-> IF Truthy(Get(config, "callbackPath"))
                           THEN config.callbackPath ELSE "/oauth/callback",
          popupWidth |-> IF "popupWidth" \in DOMAIN config
                            /\ config.popupWidth # 0
                         THEN config.popupWidth ELSE 600,
          popupHeight |-> IF "popupHeight" \in DOMAIN config
                             /\ config.popupHeight # 0
                          THEN config.popupHeight ELSE 700]

\* the URL given to window.open (lines 68-79)
SecretPopupUrl ==
    [base |-> client.authUrl,
     path |-> client.callbackPath,
     params |-> [appId |-> client.appId,
                 appSecret |-> client.appSecret,
                 callbackUri |-> Origin \o "/auth/callback",
                 scope |-> JoinScopes(client.scopes)]]

\* the promise executor of signIn (lines 61-139)
SecretExecutor(w, r, opened) ==
    IF ~opened
    THEN Reject([w EXCEPT !.req[r].pc = "running",
                          !.req[r].popupUrl = SecretPopupUrl],
                r, Err(PopupBlockedMessage))
    ELSE Mark(Mark(Mark(
            [w EXCEPT !.req[r].pc = "running",
                      !.req[r].popup = "open",
                      !.req[r].popupUrl = SecretPopupUrl,
                      !.listeners = Append(@, r),
                      !.timers = @ \cup {r}],
            r, "window.open"), r, "addEventListener"), r, "setInterval")

\* the result built from the message (lines 107-113)
SecretResult(data) ==
    [token |-> Get(data, "token"),
     uid |-> Get(data, "uid"),
     email |-> Get(data, "email"),
     displayName |-> Get(data, "displayName"),
     photoURL |-> Get(data, "photoURL")]

\* faulty variant: the handler leaves the popup open
SecretMessageHandler_KeepPopup(w, r, ev) ==
    IF "isNull" \in DOMAIN ev.data
    THEN w
    ELSE IF Get(ev.data, "type") = SUCCESS
    THEN Resolve(RemoveListener(EnterBranch(w, r, "SUCCESS"), r),
                 r, SecretResult(ev.data))
    ELSE IF Get(ev.data, "type") = ERROR
    THEN Reject(RemoveListener(EnterBranch(w, r, "ERROR"), r),
                r, Err(IF Truthy(Get(ev.data, "error"))
                       THEN ev.data.error ELSE AuthFailedMessage))
    ELSE w

\* messageHandler (lines 100-126); reading the type of a null event.data
\* throws out of the listener, which changes nothing
SecretMessageHandler(w, r, ev) ==
    IF "isNull" \in DOMAIN ev.data
    THEN w
    ELSE IF Get(ev.data, "type") = SUCCESS
    THEN Resolve(ClosePopupHandle(
                     RemoveListener(EnterBranch(w, r, "SUCCESS"), r), r),
                 r, SecretResult(ev.data))
    ELSE IF Get(ev.data, "type") = ERROR
    THEN Reject(ClosePopupHandle(
                    RemoveListener(EnterBranch(w, r, "ERROR"), r), r),
                r, Err(IF Truthy(Get(ev.data, "error"))
                       THEN ev.data.error ELSE AuthFailedMessage))
    ELSE w

\* checkClosed (lines 131-138)
SecretCheckClosed(w, r) ==
    IF w.req[r].popup = "closed"
    THEN Reject(RemoveListener(ClearTimer(EnterBranch(w, r, "CLOSED"), r), r),
                r, Err(SecretCancelledMessage))
    ELSE w

\* dispatch of one message event to the listeners registered when it starts
RECURSIVE SecretDispatch(_, _, _)
SecretDispatch(w, snapshot, ev) ==
    IF snapshot = <<>>
    THEN w
    ELSE SecretDispatch(
            IF \E i \in 1..Len(w.listeners) : w.listeners[i] = Head(snapshot)
            THEN SecretMessageHandler(w, Head(snapshot), ev) ELSE w,
            Tail(snapshot), ev)

SecretMessages == { MsgToken, MsgDenied, MsgErrorEmpty, MsgOther, NullData }

InitSecret ==
    /\ cfg \in SecretConfigs
    /\ client = SecretConstructor(cfg)
    /\ req = [r \in Calls |-> NewRequest]
    /\ listeners = <<>>
    /\ timers = {}
    /\ bus = <<>>
    /\ sessionStorage = [pkce_code_verifier |-> Null,
                         pkce_code_challenge |-> Null]
    /\ rng = 0
    /\ api = ApiIdle

\* a call of signIn()
SecretSignIn(r) ==
    /\ client.ok
    /\ req[r].pc = "idle"
    /\ r > 1 => req[r - 1].pc # "idle"
    /\ \E opened \in BOOLEAN : Commit(SecretExecutor(World, r, opened))
    /\ UNCHANGED <<cfg, api, client, bus, sessionStorage, rng>>

\* the page runs the task of the oldest posted message
SecretDeliverMessage ==
    /\ bus # <<>>
    /\ Commit(SecretDispatch(World, listeners, Head(bus)))
    /\ bus' = Tail(bus)
    /\ UNCHANGED <<cfg, api, client, sessionStorage, rng>>

\* one tick of the setInterval of invocation r
SecretTick(r) ==
    /\ r \in timers
    /\ Commit(SecretCheckClosed(World, r))
    /\ UNCHANGED <<cfg, api, client, bus, sessionStorage, rng>>

NextSecret ==
    \/ \E r \in Calls : SecretSignIn(r)
    \/ \E src \in 0..MaxCalls, data \in SecretMessages : PostMessage(src, data)
    \/ SecretDeliverMessage
    \/ \E r \in Calls : PopupClosed(r)
    \/ \E r \in Calls : SecretTick(r)

\* a running setInterval timer eventually ticks
SecretFairness == \A r \in Calls : WF_vars(SecretTick(r))

SpecSecret == InitSecret /\ [][NextSecret]_vars /\ SecretFairness

(***************************************************************************)
(* Vocabulary of the properties.                                           *)
(***************************************************************************)
Log(r) == req[r].log

InLog(r, what) == \E i \in 1..Len(Log(r)) : Log(r)[i] = what

\* every effect among `later` in the log of r has the effect `first` before it
Precedes(r, first, later) ==
    \A i \in 1..Len(Log(r)) :
        Log(r)[i] \in later => \E j \in 1..(i - 1) : Log(r)[j] = first

HowMany(r, marks) == Cardinality({i \in 1..Len(Log(r)) : Log(r)[i] \in marks})

\* terminal branches entered, and calls of resolve/reject made, by invocation r
Branches(r) == HowMany(r, {"SUCCESS", "ERROR", "CLOSED"})
Settles(r) == HowMany(r, {"resolve", "reject"})

Registered(r) == \E i \in 1..Len(listeners) : listeners[i] = r

FetchesBy(r) == req[r].fetches

Rejected(reason) == [state |-> "rejected", reason |-> reason]
Resolved(value) == [state |-> "resolved", value |-> value]

\* the step dispatches the oldest posted message
Delivering == bus # <<>> /\ bus' = Tail(bus)

OpenedLog == <<"window.open", "addEventListener", "setInterval">>

(***************************************************************************)
(* C1: per signIn invocation at most one terminal branch (SUCCESS, ERROR,  *)
(* popup closed) ever runs and resolve/reject is called at most once; once *)
(* an ERROR message has rejected the flow, no later step (in particular no *)
(* later message, SUCCESS with a code included) changes anything of that   *)
(* invocation: no exchange request, no second settle, no state change.     *)
(***************************************************************************)
C1_OneTerminalTransition ==
    /\ [](\A r \in Calls :
            /\ Branches(r) <= 1
            /\ Settles(r) <= 1
            /\ InLog(r, "ERROR") =>
                  /\ req[r].promise.state = "rejected"
                  /\ FetchesBy(r) = <<>>)
    /\ [][\A r \in Calls :
            InLog(r, "ERROR") =>
               /\ req'[r] = req[r]
               /\ ~Registered(r)'
               /\ r \notin timers']_vars

\* an ERROR message has rejected a PKCE flow and a SUCCESS message with a
\* code, posted afterwards, is about to be dispatched
C1_Witness ==
    \E r \in Calls :
        /\ client.ok /\ client.usePKCE
        /\ InLog(r, "ERROR")
        /\ req[r].promise.state = "rejected"
        /\ bus # <<>> /\ Head(bus).data = MsgCode

(***************************************************************************)
(* C2: whenever the promise of an invocation whose popup was opened has    *)
(* been resolved or rejected, its listener is removed, its timer is        *)
(* cleared and its popup is closed, and the removal and the clearing came  *)
(* before the first resolve/reject inside the handler that settled it.     *)
(***************************************************************************)
C2_TeardownBeforeSettle ==
    \A r \in Calls :
        (req[r].popup # "none" /\ Settles(r) >= 1) =>
            /\ req[r].promise.state # "pending"
            /\ ~Registered(r)
            /\ r \notin timers
            /\ req[r].popup = "closed"
            /\ Precedes(r, "removeEventListener", {"resolve", "reject"})
            /\ Precedes(r, "clearInterval", {"resolve", "reject"})

\* one flow was cancelled by the closure poll, another rejected by a failed exchange
C2_Witness ==
    \E r1, r2 \in Calls :
        /\ InLog(r1, "CLOSED") /\ req[r1].promise.state = "rejected"
        /\ InLog(r2, "fetch") /\ req[r2].promise.state = "rejected"

(***************************************************************************)
(* C3: concurrent signIn calls each own one popup and one listener, and    *)
(* the dispatch of a terminal message posted by the popup of one flow      *)
(* leaves the promise of every other flow as it was.                       *)
(***************************************************************************)
C3_IndependentFlows ==
    /\ [](\A r \in Calls :
            (req[r].popup = "open" /\ Branches(r) = 0) =>
                Cardinality({i \in 1..Len(listeners) : listeners[i] = r}) = 1)
    /\ [][\A r \in Calls :
            (/\ Delivering
             /\ Head(bus).src \in Calls \ {r}
             /\ "type" \in DOMAIN Head(bus).data
             /\ Head(bus).data.type \in {SUCCESS, ERROR})
            => req'[r].promise = req[r].promise]_vars

(***************************************************************************)
(* C4: a closure-poll tick that finds the popup closed while the timer is  *)
(* still running (no terminal message was handled) rejects the flow with   *)
(* the cancellation error in that very tick, and the cancellation branch   *)
(* is entered in no other way: only by a tick, only with the popup closed, *)
(* only while the flow is still pending.                                   *)
(***************************************************************************)
C4_CancelOnFirstTick ==
    /\ [](\A r \in Calls :
            r \in timers =>
                /\ req[r].promise.state = "pending"
                /\ Branches(r) = 0
                /\ req[r].popup \in {"open", "closed"}
                /\ req[r].popup = "closed" =>
                       CheckClosed(World, r).req[r].promise =
                           Rejected(Err(CancelledMessage)))
    /\ [][\A r \in Calls :
            /\ (Tick(r) /\ req[r].popup = "closed") =>
                  /\ req'[r].promise = Rejected(Err(CancelledMessage))
                  /\ InLog(r, "CLOSED")'
            /\ (InLog(r, "CLOSED")' /\ ~InLog(r, "CLOSED")) =>
                  /\ r \in timers
                  /\ req[r].popup = "closed"
                  /\ req[r].promise.state = "pending"
                  /\ bus' = bus]_vars

\* the user closed the popup and the next tick cancelled the flow
C4_Witness ==
    \E r \in Calls :
        /\ InLog(r, "CLOSED")
        /\ req[r].promise = Rejected(Err(CancelledMessage))
        /\ req[r].log = OpenedLog \o <<"CLOSED", "clearInterval",
                                       "removeEventListener", "reject">>

(***************************************************************************)
(* C5: the first of the two handlers to run decides.  Once a terminal      *)
(* message was handled the timer is gone, the cancellation branch never    *)
(* runs and the flow is never rejected as cancelled, although the handler  *)
(* closed the popup itself; once a tick cancelled the flow the listener is *)
(* gone and no message branch, exchange request or other outcome follows.  *)
(***************************************************************************)
C5_FirstHandlerDecides ==
    \A r \in Calls :
        /\ (InLog(r, "SUCCESS") \/ InLog(r, "ERROR")) =>
              /\ req[r].popup = "closed"
              /\ r \notin timers
              /\ ~Registered(r)
              /\ ~InLog(r, "CLOSED")
              /\ req[r].promise # Rejected(Err(CancelledMessage))
        /\ InLog(r, "CLOSED") =>
              /\ ~Registered(r)
              /\ r \notin timers
              /\ ~InLog(r, "SUCCESS") /\ ~InLog(r, "ERROR")
              /\ FetchesBy(r) = <<>>
              /\ req[r].promise = Rejected(Err(CancelledMessage))

\* one flow was decided by its tick, another by a message whose handler
\* closed the popup, and a further message is still to be dispatched
C5_Witness ==
    \E r1, r2 \in Calls :
        /\ InLog(r1, "CLOSED")
        /\ InLog(r2, "SUCCESS") /\ req[r2].popup = "closed"
        /\ bus # <<>> /\ Head(bus).data = MsgDenied

(***************************************************************************)
(* C6: when window.open returns no handle the promise is rejected in the   *)
(* same step with the popup-blocked error, and that invocation never       *)
(* registers a listener, never starts a timer and has no other effect.     *)
(***************************************************************************)
C6_PopupBlocked ==
    \A r \in Calls :
        (req[r].pc = "running" /\ req[r].popup = "none") =>
            /\ req[r].promise =
                   Rejected(Err("Popup blocked. Please allow popups for this site."))
            /\ req[r].log = <<"reject">>
            /\ ~Registered(r)
            /\ r \notin timers
            /\ FetchesBy(r) = <<>>

\* a blocked invocation beside a flow whose popup opened, with a terminal
\* message about to be dispatched
C6_Witness ==
    \E r1, r2 \in Calls :
        /\ req[r1].pc = "running" /\ req[r1].popup = "none"
        /\ req[r2].popup = "open"
        /\ bus # <<>> /\ Head(bus).data = MsgCode

\* the call of exchangeCodeWithBackend that issued fetch f has returned or
\* thrown: fetch rejected, or the body of the answer has been read
Completed(f) == f.answer.kind = "throw" \/ f.read

\* an exchange answer that carries the whole result of the PKCE flow
FullAnswer(a) ==
    /\ a.kind = "response" /\ a.ok
    /\ "result" \in DOMAIN a.json
    /\ {"firebaseToken", "user"} \subseteq DOMAIN a.json.result
    /\ {"uid", "email", "displayName", "photoURL"}
           \subseteq DOMAIN a.json.result.user

(***************************************************************************)
(* C7: in PKCE mode, when the exchange request issued for a SUCCESS        *)
(* message with a code is answered with {result: {firebaseToken, user:     *)
(* {uid, email, displayName, photoURL}}}, signIn resolves to exactly       *)
(* {token: firebaseToken, uid, email, displayName, photoURL}.              *)
(***************************************************************************)
C7_PkceResolve ==
    \A r \in Calls :
        \A i \in 1..Len(FetchesBy(r)) :
            LET a == FetchesBy(r)[i].answer
            IN (FetchesBy(r)[i].read /\ FullAnswer(a)) =>
                  /\ client.usePKCE
                  /\ InLog(r, "SUCCESS")
                  /\ req[r].promise =
                         Resolved([token |-> a.json.result.firebaseToken,
                                   uid |-> a.json.result.user.uid,
                                   email |-> a.json.result.user.email,
                                   displayName |-> a.json.result.user.displayName,
                                   photoURL |-> a.json.result.user.photoURL])

\* the flow of the spec's example: code "abc", then the answer with T and U
C7_Witness ==
    \E r \in Calls :
        /\ Len(FetchesBy(r)) = 1
        /\ FetchesBy(r)[1].body.data.code = "abc"
        /\ FetchesBy(r)[1].answer = RespGood
        /\ req[r].promise =
               Resolved([token |-> "T", uid |-> "U", email |-> "e@x.com",
                         displayName |-> "D", photoURL |-> Null])

(***************************************************************************)
(* C8: the dispatch of a TREEVIZ_AUTH_ERROR message to a flow that awaits  *)
(* user action rejects it with an Error whose message is the message's     *)
(* error field when present and non-empty, and otherwise "TreeViz          *)
(* authentication failed".                                                 *)
(***************************************************************************)
C8_ProviderError ==
    [][\A r \in Calls :
          (/\ Delivering
           /\ Registered(r)
           /\ "type" \in DOMAIN Head(bus).data
           /\ Head(bus).data.type = ERROR)
          => LET d == Head(bus).data
             IN req'[r].promise =
                    Rejected([isError |-> TRUE,
                              message |->
                                  IF "error" \in DOMAIN d
                                     /\ d.error \notin {"", Null, Undefined}
                                  THEN d.error
                                  ELSE "TreeViz authentication failed"])]_vars

\* one flow rejected with the provider's text, another with the generic one
C8_Witness ==
    \E r1, r2 \in Calls :
        /\ InLog(r1, "ERROR") /\ req[r1].promise = Rejected(Err("denied"))
        /\ InLog(r2, "ERROR")
        /\ req[r2].promise = Rejected(Err("TreeViz authentication failed"))

(***************************************************************************)
(* C9: once the exchange started by a PKCE SUCCESS message has failed (the *)
(* fetch threw, the status was not a success, or the answer had no result  *)
(* envelope) signIn is rejected with that failure: an Error is passed on   *)
(* unchanged, any other thrown value becomes Error("Token exchange         *)
(* failed"); and no flow is still pending once its exchange call has       *)
(* returned or thrown.                                                     *)
(***************************************************************************)
C9_ExchangeFailure ==
    \A r \in Calls :
        \A i \in 1..Len(FetchesBy(r)) :
            LET a == FetchesBy(r)[i].answer
                read == FetchesBy(r)[i].read
            IN /\ Completed(FetchesBy(r)[i]) =>
                     req[r].promise.state # "pending"
               /\ a.kind = "throw" =>
                     req[r].promise =
                         Rejected(IF a.value.isError THEN a.value
                                  ELSE [isError |-> TRUE,
                                        message |-> "Token exchange failed"])
               /\ (read /\ ~a.ok) =>
                     req[r].promise =
                         Rejected([isError |-> TRUE,
                                   message |-> "Backend token exchange failed ("
                                               \o ToString(a.status) \o "): "
                                               \o a.text])
               /\ (read /\ a.ok /\ "result" \notin DOMAIN a.json) =>
                     req[r].promise =
                         Rejected([isError |-> TRUE,
                                   message |-> "Invalid response from backend exchange endpoint"])

\* one exchange failed with a thrown non-Error value, another with status 500
C9_Witness ==
    \E r1, r2 \in Calls :
        /\ Len(FetchesBy(r1)) = 1 /\ FetchesBy(r1)[1].answer = FetchThrowsNonError
        /\ req[r1].promise = Rejected(Err("Token exchange failed"))
        /\ Len(FetchesBy(r2)) = 1 /\ FetchesBy(r2)[1].answer = RespServerError
        /\ req[r2].promise =
               Rejected(Err("Backend token exchange failed (500): oops"))

\* a message field that is present and not empty
Present(d, k) == k \in DOMAIN d /\ d[k] \notin {"", Null, Undefined}

\* a SUCCESS message without the fields the mode of the client needs
MalformedSuccess(d) ==
    /\ "type" \in DOMAIN d
    /\ d.type = SUCCESS
    /\ IF client.usePKCE
       THEN ~Present(d, "code")
       ELSE ~(Present(d, "token") /\ Present(d, "uid"))

InvalidResponse == Rejected(Err("Invalid authentication response"))

(***************************************************************************)
(* C10: a TREEVIZ_AUTH_SUCCESS message without the fields of the active    *)
(* mode (no code in PKCE mode; not both token and uid in legacy mode) is   *)
(* terminal: its dispatch tears the flow down and rejects it with "Invalid *)
(* authentication response" without any exchange request, and nothing      *)
(* that happens later (a well-formed SUCCESS message included) changes     *)
(* that invocation.                                                        *)
(***************************************************************************)
C10_MalformedSuccess ==
    /\ [][\A r \in Calls :
            (Delivering /\ Registered(r) /\ MalformedSuccess(Head(bus).data)) =>
                /\ req'[r].promise = InvalidResponse
                /\ req'[r].popup = "closed"
                /\ req'[r].fetches = <<>>
                /\ ~Registered(r)'
                /\ r \notin timers']_vars
    /\ [][\A r \in Calls :
            req[r].promise = InvalidResponse =>
                /\ req'[r] = req[r]
                /\ ~Registered(r)'
                /\ r \notin timers']_vars

\* a flow was rejected as malformed and a well-formed SUCCESS message for
\* its mode, posted afterwards, is about to be dispatched
C10_Witness ==
    \E r \in Calls :
        /\ req[r].promise = InvalidResponse
        /\ InLog(r, "SUCCESS")
        /\ bus # <<>>
        /\ Head(bus).data = IF client.usePKCE THEN MsgCode ELSE MsgToken

\* the optional field k of a message as the result must carry it
FieldOrNull(d, k) == IF Present(d, k) THEN d[k] ELSE Null

\* a SUCCESS message that carries both a token and a uid
DirectToken(d) ==
    /\ "type" \in DOMAIN d
    /\ d.type = SUCCESS
    /\ Present(d, "token") /\ Present(d, "uid")

(***************************************************************************)
(* C11: in legacy mode (usePKCE false) the dispatch of a SUCCESS message   *)
(* that carries token and uid resolves every flow whose handler runs with  *)
(* {token, uid, email, displayName, photoURL} of the message, an absent or *)
(* empty optional field being null; and in legacy mode no exchange request *)
(* is ever issued.                                                         *)
(***************************************************************************)
C11_LegacyResolve ==
    /\ [](\A r \in Calls :
            (client.ok /\ ~client.usePKCE) =>
                /\ FetchesBy(r) = <<>>
                /\ ~InLog(r, "fetch"))
    /\ [][\A r \in Calls :
            (/\ client.ok /\ ~client.usePKCE
             /\ Delivering /\ Registered(r)
             /\ DirectToken(Head(bus).data)) =>
                req'[r].promise =
                    Resolved([token |-> Head(bus).data.token,
                              uid |-> Head(bus).data.uid,
                              email |-> FieldOrNull(Head(bus).data, "email"),
                              displayName |->
                                  FieldOrNull(Head(bus).data, "displayName"),
                              photoURL |->
                                  FieldOrNull(Head(bus).data, "photoURL")])]_vars

\* a legacy flow was resolved from a message whose displayName was empty
\* and whose photoURL was null
C11_Witness ==
    \E r \in Calls :
        /\ client.ok /\ ~client.usePKCE
        /\ InLog(r, "SUCCESS")
        /\ req[r].promise =
               Resolved([token |-> "tok", uid |-> "u1", email |-> "m@x.com",
                         displayName |-> Null, photoURL |-> Null])
        /\ FetchesBy(r) = <<>>

\* a message without data, without a type, or of a type that is neither
\* TREEVIZ_AUTH_SUCCESS nor TREEVIZ_AUTH_ERROR
Unrecognized(d) ==
    \/ "isNull" \in DOMAIN d
    \/ ~Present(d, "type")
    \/ d.type \notin {SUCCESS, ERROR}

\* invocation r waits for its popup: nothing has settled or torn it down
InFlight(r) ==
    /\ Registered(r)
    /\ r \in timers
    /\ req[r].popup = "open"
    /\ req[r].promise = Pending

(***************************************************************************)
(* C12: the dispatch of a message with no data, no type field, or a type   *)
(* other than TREEVIZ_AUTH_SUCCESS / TREEVIZ_AUTH_ERROR changes nothing of *)
(* any invocation: listeners, timers, popups, promises and exchange        *)
(* requests are all as they were before.                                   *)
(***************************************************************************)
C12_UnrecognizedIgnored ==
    /\ [](\A r \in Calls, d \in NoiseMessages :
            (Registered(r) /\ Unrecognized(d)) =>
                MessageHandler(World, r, [src |-> 0, data |-> d]) = World)
    /\ [][(Delivering /\ Unrecognized(Head(bus).data)) =>
             /\ req' = req
             /\ listeners' = listeners
             /\ timers' = timers]_vars

\* a message of an unrelated type is about to be dispatched to the handler
\* of a flow that is waiting for its popup, and the handler leaves the
\* flow as it is
C12_Witness ==
    \E r \in Calls :
        /\ InFlight(r)
        /\ bus # <<>>
        /\ Head(bus).data = MsgOther
        /\ Dispatch(World, listeners, Head(bus)) = World

\* window.sessionStorage without the two PKCE entries
EmptyStorage == [pkce_code_verifier |-> Null, pkce_code_challenge |-> Null]

\* invocation r has been started and has not resolved or rejected yet
Unsettled(r) == req[r].pc # "idle" /\ req[r].promise = Pending

(***************************************************************************)
(* C13: the message bus is the only state signIn calls share.  Whatever a  *)
(* call writes outside its own closure is owned by that call while it is   *)
(* in flight: it does not survive the call, and no other call's write      *)
(* replaces it.  The state outside the closures is window.sessionStorage.  *)
(***************************************************************************)
C13_OnlyBusShared ==
    /\ [](sessionStorage # EmptyStorage =>
            \E r \in Calls :
                /\ Unsettled(r)
                /\ sessionStorage.pkce_code_verifier = req[r].codeVerifier)
    /\ [][sessionStorage # EmptyStorage =>
             sessionStorage' \in {sessionStorage, EmptyStorage}]_vars

(***************************************************************************)
(* C14: in PKCE mode every started signIn invocation has drawn exactly one *)
(* verifier, different from the verifier of every other invocation, with   *)
(* its challenge; and once the invocation has resolved or rejected (the    *)
(* popup-blocked rejection included) neither of the two is held in         *)
(* window.sessionStorage any more.                                         *)
(***************************************************************************)
C14_PairDiscarded ==
    (client.ok /\ client.usePKCE) =>
        /\ rng = Cardinality({r \in Calls : req[r].pc # "idle"})
        /\ \A r \in Calls :
              req[r].pc # "idle" =>
                 /\ Truthy(req[r].codeVerifier)
                 /\ \A q \in Calls \ {r} :
                       req[q].codeVerifier # req[r].codeVerifier
        /\ \A r \in Calls :
              req[r].pc = "running" =>
                 /\ req[r].codeChallenge =
                        GenerateCodeChallenge(req[r].codeVerifier)
                 /\ req[r].promise # Pending =>
                       /\ sessionStorage.pkce_code_verifier
                              # req[r].codeVerifier
                       /\ sessionStorage.pkce_code_challenge
                              # req[r].codeChallenge

\* the values that leave the page in the URL handed to window.open
UrlValues(url) ==
    IF url = NoUrl THEN {}
    ELSE {url.base, url.path} \cup {url.params[k] : k \in DOMAIN url.params}

(***************************************************************************)
(* C15: the verifier of a signIn call leaves the page only in the body of  *)
(* a POST to the configured exchangeTokenUrl.  No URL handed to            *)
(* window.open carries it (the URL of the call carries the challenge),     *)
(* and no request carries it in its URL or to another address.  The page   *)
(* posts no message at all: the bus holds inbound messages only.           *)
(***************************************************************************)
C15_VerifierConfined ==
    \A r \in Calls :
        Truthy(req[r].codeVerifier) =>
            /\ \A q \in Calls :
                  req[r].codeVerifier \notin UrlValues(req[q].popupUrl)
            /\ req[r].popupUrl # NoUrl =>
                  req[r].popupUrl.params.code_challenge = req[r].codeChallenge
            /\ \A q \in Calls :
                  \A i \in 1..Len(FetchesBy(q)) :
                      /\ FetchesBy(q)[i].url # req[r].codeVerifier
                      /\ FetchesBy(q)[i].body.data.code # req[r].codeVerifier
                      /\ FetchesBy(q)[i].body.data.codeVerifier
                             = req[r].codeVerifier =>
                            /\ FetchesBy(q)[i].url = client.exchangeTokenUrl
                            /\ FetchesBy(q)[i].method = "POST"

\* a PKCE flow whose popup was opened has sent its verifier to the
\* exchange endpoint
C15_Witness ==
    \E r \in Calls :
        /\ client.ok /\ client.usePKCE
        /\ InLog(r, "window.open")
        /\ Len(FetchesBy(r)) = 1
        /\ FetchesBy(r)[1].url = ExchangeUrl
        /\ FetchesBy(r)[1].body.data.codeVerifier = req[r].codeVerifier
        /\ req[r].popupUrl.params.code_challenge
               = GenerateCodeChallenge(req[r].codeVerifier)

\* the step dispatches a TREEVIZ_AUTH_SUCCESS or TREEVIZ_AUTH_ERROR message
TerminalDispatch == Delivering /\ ~Unrecognized(Head(bus).data)

(***************************************************************************)
(* C16: a flow whose popup is open stays pending, with its listener and    *)
(* its timer, through every step that is not the dispatch of a             *)
(* TREEVIZ_AUTH_SUCCESS / TREEVIZ_AUTH_ERROR message: a tick that finds    *)
(* the popup open changes nothing, and there is no timeout and no          *)
(* cancellation by the caller.  Once the popup is closed the only steps    *)
(* that settle the pending flow are such a dispatch and the tick that      *)
(* observes the closure.                                                   *)
(***************************************************************************)
C16_PendingWhileOpen ==
    /\ [](\A r \in Calls : InFlight(r) => CheckClosed(World, r) = World)
    /\ [][\A r \in Calls :
            (InFlight(r) /\ ~TerminalDispatch) =>
                /\ req'[r].promise = Pending
                /\ Registered(r)'
                /\ r \in timers'
                /\ req'[r].fetches = <<>>]_vars
    /\ [][\A r \in Calls :
            (/\ req[r].pc = "running"
             /\ req[r].promise = Pending
             /\ req'[r].promise # Pending
             /\ req[r].fetches = <<>>) =>
                \/ TerminalDispatch
                \/ /\ req[r].popup = "closed"
                   /\ req'[r].promise = Rejected(Err(CancelledMessage))
                   /\ bus' = bus]_vars

\* a flow is still waiting with its popup open after the closure poll of
\* another flow has cancelled that one
C16_Witness ==
    \E r \in Calls :
        /\ InFlight(r)
        /\ \E q \in Calls \ {r} :
              /\ InLog(q, "CLOSED")
              /\ req[q].promise = Rejected(Err(CancelledMessage))

\* PKCE mode is on for the configuration: usePKCE omitted or true
PkceOn(c) == "usePKCE" \notin DOMAIN c \/ c.usePKCE = TRUE

\* the configurations the constructor must refuse; a field that is given
\* as the empty string counts as absent
MustThrow(c) ==
    \/ ~Present(c, "appId")
    \/ PkceOn(c) /\ ~Present(c, "exchangeTokenUrl")
    \/ ~PkceOn(c) /\ ~Present(c, "appSecret")

(***************************************************************************)
(* C17: the constructor throws an Error exactly when appId is empty, or    *)
(* PKCE mode is on (usePKCE omitted or true) and exchangeTokenUrl is       *)
(* absent, or usePKCE is false and appSecret is absent; for every other    *)
(* configuration it returns an instance.  After a throw there is no        *)
(* instance, so no signIn call is ever made.                               *)
(***************************************************************************)
C17_ConstructorThrows ==
    /\ client.ok <=> ~MustThrow(cfg)
    /\ ~client.ok =>
          /\ client.error.isError
          /\ \A r \in Calls : req[r] = NewRequest
          /\ listeners = <<>> /\ timers = {}

\* construction threw for a PKCE configuration that has an appId and an
\* appSecret but no exchangeTokenUrl
C17_Witness ==
    /\ Present(cfg, "appId") /\ Present(cfg, "appSecret")
    /\ "usePKCE" \notin DOMAIN cfg
    /\ "exchangeTokenUrl" \notin DOMAIN cfg
    /\ ~client.ok
    /\ client.error =
           Err("TreeViz OAuth: exchangeTokenUrl is required when using PKCE flow")

(***************************************************************************)
(* C18 as stated: every constructed instance holds exactly one of          *)
(* exchangeTokenUrl and appSecret, the one usePKCE determines.             *)
(***************************************************************************)
C18_ExactlyOneCredential ==
    client.ok =>
        /\ Truthy(client.exchangeTokenUrl) # Truthy(client.appSecret)
        /\ Truthy(client.exchangeTokenUrl) = client.usePKCE

(***************************************************************************)
(* C18, amended: every constructed instance holds the credential of its    *)
(* mode, exchangeTokenUrl when usePKCE is true and appSecret when usePKCE  *)
(* is false, and a configuration without it is refused; the credential of  *)
(* the other mode may be present as well and is kept as given.             *)
(***************************************************************************)
C18_CredentialOfMode ==
    /\ client.ok =>
          /\ client.usePKCE = PkceOn(cfg)
          /\ IF client.usePKCE
             THEN Truthy(client.exchangeTokenUrl)
             ELSE Truthy(client.appSecret)
          /\ client.exchangeTokenUrl = Get(cfg, "exchangeTokenUrl")
          /\ client.appSecret = Get(cfg, "appSecret")
    /\ (IF PkceOn(cfg) THEN ~Present(cfg, "exchangeTokenUrl")
                       ELSE ~Present(cfg, "appSecret")) => ~client.ok

\* an instance was constructed in PKCE mode from a configuration that has
\* both an exchangeTokenUrl and an appSecret, and a flow was started on it
C18_Witness ==
    /\ client.ok /\ client.usePKCE
    /\ Truthy(client.exchangeTokenUrl) /\ Truthy(client.appSecret)
    /\ req[1].pc = "running"

(***************************************************************************)
(* C19: a constructed instance has environment "production" or             *)
(* "development", so that the lookup of the authorization URL made by      *)
(* signIn always finds an entry.                                           *)
(***************************************************************************)
C19_KnownEnvironment ==
    client.ok =>
        /\ client.environment \in DOMAIN TREEVIZ_OAUTH_URLS
        /\ \A r \in Calls :
              req[r].popupUrl # NoUrl => req[r].popupUrl.base # Undefined

\* the text the Error of function fn starts with when the status is not ok
FailureText(fn) ==
    IF fn = "exchangeCodeWithBackend" THEN "Backend token exchange failed"
    ELSE IF fn = "exchangeAuthorizationCode"
    THEN "TreeViz token exchange failed"
    ELSE "TreeViz authorization failed"

\* the parsed body wraps a value under the key result; a body whose result
\* is null, false, 0 or "" wraps nothing
HasEnvelope(json) == "result" \in DOMAIN json /\ json.result \notin JsonFalsy

(***************************************************************************)
(* C20: a call of exchangeCodeWithBackend, exchangeAuthorizationCode or    *)
(* generateAuthorizationCode issues exactly one request, a POST whose body *)
(* is {data: ...}, and issues no other whatever the answer is.  When the   *)
(* status of the answer is not a success the call throws an Error whose    *)
(* message holds the status code and the raw body; when the parsed body    *)
(* has no result envelope it throws an Error; otherwise it returns the     *)
(* value under result.  A failure of fetch itself is thrown on as it is.   *)
(***************************************************************************)
C20_OnePostNoRetry ==
    api # ApiIdle =>
        /\ api.fn \in ApiFunctions
        /\ Len(api.requests) = 1
        /\ api.requests[1].method = "POST"
        /\ DOMAIN api.requests[1].body = {"data"}
        /\ api.phase = "done" =>
              LET out == api.requests[1].answer
              IN IF out.kind = "throw"
                 THEN api.returned = [threw |-> TRUE, value |-> out.value]
                 ELSE IF ~out.ok
                 THEN api.returned =
                          [threw |-> TRUE,
                           value |-> Err(FailureText(api.fn) \o " ("
                                         \o ToString(out.status) \o "): "
                                         \o out.text)]
                 ELSE IF ~HasEnvelope(out.json)
                 THEN /\ api.returned.threw
                      /\ api.returned.value.isError
                 ELSE api.returned =
                          [threw |-> FALSE, value |-> out.json.result]

\* exchangeAuthorizationCode was answered with status 401 and threw the
\* Error that holds the status and the body
C20_Witness ==
    /\ api.phase = "done"
    /\ api.fn = "exchangeAuthorizationCode"
    /\ Len(api.requests) = 1
    /\ api.requests[1].url = "https://treeviz.com/api/oauth/token"
    /\ api.requests[1].answer = RespUnauthorized
    /\ api.returned =
           [threw |-> TRUE,
            value |-> Err("TreeViz token exchange failed (401): "
                          \o "{\"error\":\"invalid_grant\"}")]

\* an answer shaped as the backend examples of the README answer: success
\* status and the JSON body {token, uid, email, displayName, photoURL}
ReadmeAnswer(a) ==
    /\ a.kind = "response"
    /\ a.ok
    /\ {"token", "uid", "email", "displayName", "photoURL"}
           \subseteq DOMAIN a.json

(***************************************************************************)
(* C21: every exchange request is a POST to the configured                 *)
(* exchangeTokenUrl that carries the code and the codeVerifier, and once   *)
(* the backend has answered it as the README examples do, signIn is        *)
(* resolved with the token and the uid of that answer.                     *)
(***************************************************************************)
C21_ReadmeBackend ==
    \A r \in Calls :
        \A i \in 1..Len(FetchesBy(r)) :
            /\ FetchesBy(r)[i].url = client.exchangeTokenUrl
            /\ FetchesBy(r)[i].method = "POST"
            /\ {"code", "codeVerifier"}
                   \subseteq DOMAIN FetchesBy(r)[i].body.data
            /\ (FetchesBy(r)[i].read /\ ReadmeAnswer(FetchesBy(r)[i].answer)) =>
                  /\ req[r].promise.state = "resolved"
                  /\ req[r].promise.value.token
                         = FetchesBy(r)[i].answer.json.token
                  /\ req[r].promise.value.uid
                         = FetchesBy(r)[i].answer.json.uid

\* the messages of the provider errors the modelled popups report
ProviderErrorMessages ==
    {AuthFailedMessage} \cup
    {d.error : d \in {m \in Messages : Present(m, "error")}}

(***************************************************************************)
(* C22: a flow ended by the closure poll (the user closed the popup) is    *)
(* rejected with an Error whose message is exactly "Authentication         *)
(* cancelled", a text that is neither the popup-blocked message nor the    *)
(* message of a provider error.                                            *)
(***************************************************************************)
C22_CancellationText ==
    \A r \in Calls :
        InLog(r, "CLOSED") =>
            /\ req[r].promise.state = "rejected"
            /\ req[r].promise.reason.isError
            /\ req[r].promise.reason.message = "Authentication cancelled"
            /\ req[r].promise.reason.message
                   \notin {PopupBlockedMessage} \cup ProviderErrorMessages

\* the query parameters every popup URL has
CommonParams == {"appId", "origin", "callbackUri", "scope"}

\* the scope parameter of a configuration: its scopes, or the default ones,
\* separated by blanks
ScopeOf(c) ==
    IF "scopes" \notin DOMAIN c THEN "email profile"
    ELSE IF c.scopes = <<>> THEN ""
    ELSE c.scopes[1]

(***************************************************************************)
(* C23: every URL handed to window.open carries appId, origin, callbackUri *)
(* and scope.  In PKCE mode it carries besides them code_challenge and     *)
(* code_challenge_method = "S256" and nothing else: no appSecret, also     *)
(* when the configuration has one.  In legacy mode it carries besides      *)
(* them the appSecret and nothing else: no code_challenge.                 *)
(***************************************************************************)
C23_PopupUrlParams ==
    \A r \in Calls :
        req[r].popupUrl # NoUrl =>
            /\ req[r].popupUrl.path = "/oauth/callback"
            /\ req[r].popupUrl.params.appId = cfg.appId
            /\ req[r].popupUrl.params.origin = Origin
            /\ req[r].popupUrl.params.callbackUri = Origin \o "/auth/callback"
            /\ req[r].popupUrl.params.scope = ScopeOf(cfg)
            /\ IF PkceOn(cfg)
               THEN /\ DOMAIN req[r].popupUrl.params =
                           CommonParams \cup
                           {"code_challenge", "code_challenge_method"}
                    /\ req[r].popupUrl.params.code_challenge_method = "S256"
                    /\ req[r].popupUrl.params.code_challenge
                           = GenerateCodeChallenge(req[r].codeVerifier)
                    /\ Present(cfg, "appSecret") =>
                           cfg.appSecret \notin UrlValues(req[r].popupUrl)
               ELSE /\ DOMAIN req[r].popupUrl.params =
                           CommonParams \cup {"appSecret"}
                    /\ req[r].popupUrl.params.appSecret = cfg.appSecret

\* a popup URL was built in PKCE mode for a client whose configuration
\* supplied an appSecret
C23_Witness ==
    \E r \in Calls :
        /\ client.ok /\ client.usePKCE
        /\ Present(cfg, "appSecret")
        /\ req[r].popupUrl # NoUrl
        /\ "code_challenge" \in DOMAIN req[r].popupUrl.params

\* every window that can post to the page: 0 is a window the page did not
\* open, r is the popup of invocation r
Senders == 0..MaxCalls

(***************************************************************************)
(* C24: what the dispatch of a message does depends on its data alone.     *)
(* Whenever a message is about to be dispatched, the same data posted by   *)
(* any other sender (the popup of any invocation, or a window the page     *)
(* never opened) takes every invocation, the listeners and the timers to   *)
(* the same next state.                                                    *)
(***************************************************************************)
C24_SenderIgnored ==
    [](bus # <<>> =>
         LET posted == Dispatch(World, listeners, Head(bus))
         IN  \A s \in Senders \ {Head(bus).src} :
                 Dispatch(World, listeners,
                          [src |-> s, data |-> Head(bus).data]) = posted)

\* a terminal message posted by a window the page did not open is about to
\* be dispatched to a waiting flow, and the dispatch settles or tears down
\* that flow
C24_Witness ==
    \E r \in Calls :
        /\ InFlight(r)
        /\ bus # <<>>
        /\ Head(bus).src = 0
        /\ ~Unrecognized(Head(bus).data)
        /\ Dispatch(World, listeners, Head(bus)).req[r] # req[r]

(***************************************************************************)
(* C25: the object getConfig returns has no appSecret field, and no field  *)
(* of it holds the configured secret, whatever configuration the instance  *)
(* was constructed from.                                                   *)
(***************************************************************************)
C25_GetConfigHidesSecret ==
    /\ client.ok => "appSecret" \notin DOMAIN GetConfig(client)
    /\ (api.phase = "done" /\ api.fn = "getConfig") =>
          /\ ~api.returned.threw
          /\ DOMAIN api.returned.value =
                 {"environment", "appId", "scopes", "popupWidth",
                  "popupHeight", "usePKCE", "exchangeTokenUrl"}
          /\ Present(cfg, "appSecret") =>
                \A k \in {"environment", "appId", "exchangeTokenUrl"} :
                    api.returned.value[k] # cfg.appSecret

\* getConfig was called on a legacy instance, which holds an appSecret
C25_Witness ==
    /\ client.ok /\ ~client.usePKCE
    /\ client.appSecret = "s3cret"
    /\ api.phase = "done" /\ api.fn = "getConfig"
    /\ api.returned.value.appId = "app"

\* the characters a PKCE verifier may consist of: [A-Za-z0-9-._~]
Unreserved ==
    {Base64Alphabet[i] : i \in 1..62} \cup {"-", ".", "_", "~"}

(***************************************************************************)
(* C26: every string generateCodeVerifier produces has at least 43 and at  *)
(* most 128 characters (43 exactly, for 32 bytes), all of them from        *)
(* [A-Za-z0-9-._~]: it has no "+", no "/" and no "=".                      *)
(***************************************************************************)
C26_VerifierFormat ==
    (api.phase = "done" /\ api.fn = "generateCodeVerifier") =>
        /\ Len(api.array) = 32
        /\ Len(api.returned.value) >= 43
        /\ Len(api.returned.value) <= 128
        /\ \A i \in 1..Len(api.returned.value) :
              /\ api.returned.value[i] \in Unreserved
              /\ api.returned.value[i] \notin {"+", "/", "="}

\* a verifier was produced from bytes whose base64 form has "+" and "/":
\* it has 43 characters, "-" and "_" among them
C26_Witness ==
    /\ api.phase = "done" /\ api.fn = "generateCodeVerifier"
    /\ Len(api.returned.value) = 43
    /\ \E i \in 1..43 : api.returned.value[i] = "-"
    /\ \E i \in 1..43 : api.returned.value[i] = "_"
    /\ \E i \in 1..Len(Btoa(api.array)) : Btoa(api.array)[i] = "="

\* the effects of a flow from window.open to the issue of its exchange
\* request, in the order the claim gives
ExchangeLog ==
    OpenedLog \o
    <<"SUCCESS", "removeEventListener", "clearInterval", "popup.close",
      "fetch">>

(***************************************************************************)
(* C27: when a PKCE flow handles a SUCCESS message that carries a code it  *)
(* removes its listener, clears its closure-poll timer and closes its      *)
(* popup, in this order, and only then issues the exchange request; the    *)
(* request carries the code of that message and the verifier generated by  *)
(* the same signIn invocation.                                             *)
(***************************************************************************)
C27_TeardownThenExchange ==
    /\ [](\A r \in Calls :
            InLog(r, "fetch") =>
                /\ Len(Log(r)) >= Len(ExchangeLog)
                /\ SubSeq(Log(r), 1, Len(ExchangeLog)) = ExchangeLog
                /\ ~Registered(r)
                /\ r \notin timers
                /\ req[r].popup = "closed"
                /\ Truthy(req[r].codeVerifier)
                /\ FetchesBy(r)[1].body.data.codeVerifier
                       = req[r].codeVerifier)
    /\ [][\A r \in Calls :
            (/\ client.ok /\ client.usePKCE
             /\ Delivering /\ Registered(r)
             /\ "type" \in DOMAIN Head(bus).data
             /\ Head(bus).data.type = SUCCESS
             /\ Present(Head(bus).data, "code")) =>
                /\ Len(req'[r].fetches) = 1
                /\ req'[r].fetches[1].body =
                       [data |-> [code |-> Head(bus).data.code,
                                  codeVerifier |-> req[r].codeVerifier]]
                /\ req'[r].log = ExchangeLog]_vars

\* a PKCE flow has torn itself down and waits for the answer to its
\* exchange request
C27_Witness ==
    \E r \in Calls :
        /\ client.ok /\ client.usePKCE
        /\ Log(r) = ExchangeLog
        /\ req[r].promise = Pending
        /\ Len(FetchesBy(r)) = 1
        /\ FetchesBy(r)[1].pending
        /\ FetchesBy(r)[1].body.data.code = "abc"

\* invocation r has opened its popup and no terminal branch has run for it
AwaitingUser(r) == InLog(r, "window.open") /\ Branches(r) = 0

\* the number of registrations of the handler of invocation r
Registrations(r) ==
    Cardinality({i \in 1..Len(listeners) : listeners[i] = r})

(***************************************************************************)
(* C28: in every reachable state an invocation that awaits the user has    *)
(* exactly one registered listener and its running timer, and every other  *)
(* invocation (not started, popup blocked, exchanging, resolved, rejected) *)
(* has neither.  So the numbers of listeners and of timers both equal the  *)
(* number of invocations awaiting the user, and are zero once every        *)
(* started invocation has settled.                                         *)
(***************************************************************************)
C28_OneListenerOneTimer ==
    [](/\ \A r \in Calls :
             /\ Registrations(r) = IF AwaitingUser(r) THEN 1 ELSE 0
             /\ r \in timers <=> AwaitingUser(r)
             /\ AwaitingUser(r) =>
                   /\ req[r].promise = Pending
                   /\ FetchesBy(r) = <<>>
       /\ Len(listeners) = Cardinality({r \in Calls : AwaitingUser(r)})
       /\ Cardinality(timers) = Cardinality({r \in Calls : AwaitingUser(r)})
       /\ (\A r \in Calls : req[r].pc = "idle" \/ req[r].promise # Pending) =>
             listeners = <<>> /\ timers = {})

\* every invocation has opened its popup and has settled, one of them
\* through an exchange, and no listener or timer is left
C28_Witness ==
    /\ \A r \in Calls :
          InLog(r, "window.open") /\ req[r].promise # Pending
    /\ \E r \in Calls : InLog(r, "fetch")
    /\ listeners = <<>>
    /\ timers = {}

\* the codes the SUCCESS messages of the model carry
MessageCodes == {m.code : m \in {d \in Messages : Present(d, "code")}}

(***************************************************************************)
(* C29: an invocation issues at most one exchange request.  It issues it   *)
(* only in PKCE mode, only with its popup opened, and only inside the      *)
(* handling of a TREEVIZ_AUTH_SUCCESS message that carries a code; an      *)
(* invocation that was ended by an ERROR message, by the closure poll or   *)
(* by a blocked popup has issued none and never issues one.                *)
(***************************************************************************)
C29_AtMostOneExchange ==
    [](\A r \in Calls :
          /\ Len(FetchesBy(r)) <= 1
          /\ HowMany(r, {"fetch"}) = Len(FetchesBy(r))
          /\ FetchesBy(r) # <<>> =>
                /\ client.usePKCE
                /\ InLog(r, "window.open")
                /\ Precedes(r, "SUCCESS", {"fetch"})
                /\ FetchesBy(r)[1].body.data.code \in MessageCodes
          /\ (\/ InLog(r, "ERROR")
              \/ InLog(r, "CLOSED")
              \/ req[r].pc = "running" /\ ~InLog(r, "window.open")) =>
                FetchesBy(r) = <<>>)

\* the exchange request of a flow has been answered and a further SUCCESS
\* message with a code is about to be dispatched
C29_Witness ==
    \E r \in Calls :
        /\ Len(FetchesBy(r)) = 1
        /\ ~FetchesBy(r)[1].pending
        /\ bus # <<>>
        /\ Head(bus).data = MsgCode

(***************************************************************************)
(* C30: an exchange request pairs a code with the verifier of the flow the *)
(* code was issued for.  The popup of invocation s was opened with the     *)
(* challenge of s in its URL, so a code posted by that popup was issued    *)
(* for the challenge of s: its dispatch makes no invocation other than s   *)
(* issue an exchange request (which would carry that other invocation's    *)
(* verifier).                                                              *)
(***************************************************************************)
C30_CodeWithOwnVerifier ==
    [][\A r \in Calls :
          (/\ Delivering
           /\ Head(bus).src \in Calls \ {r}
           /\ Present(Head(bus).data, "code")) =>
              req'[r].fetches = req[r].fetches]_vars

\* a TREEVIZ_AUTH_SUCCESS / TREEVIZ_AUTH_ERROR message posted by the popup
\* of invocation r waits in the task queue of the page
OwnTerminalQueued(r) ==
    \E i \in 1..Len(bus) : bus[i].src = r /\ ~Unrecognized(bus[i].data)

(***************************************************************************)
(* C31: the popup that posts a terminal message and then closes itself     *)
(* never ends in the cancellation error.  No step rejects an invocation    *)
(* with the cancellation error while a terminal message of its own popup   *)
(* is posted and not yet dispatched.                                       *)
(***************************************************************************)
C31_MessageBeatsPoll ==
    [][\A r \in Calls :
          (/\ req[r].promise = Pending
           /\ OwnTerminalQueued(r)) =>
              req'[r].promise # Rejected(Err(CancelledMessage))]_vars

\* the tokens the SUCCESS messages of the mode flows carry
MessageTokens ==
    {m.token : m \in {d \in ModeMessages : "token" \in DOMAIN d}}

\* the exchange answers from which exchangeCodeWithBackend returns a result
Returned(a) == a.kind = "response" /\ a.ok /\ ~NoResult(a.json)

(***************************************************************************)
(* C32: in PKCE mode the token of a resolved signIn is the firebaseToken   *)
(* of the answer to its own exchange request and never the token of a      *)
(* SUCCESS message, whether or not that message also carried a code; in    *)
(* legacy mode no exchange request is ever issued, whatever SUCCESS        *)
(* messages arrive.                                                        *)
(***************************************************************************)
C32_TokenFromExchange ==
    \A r \in Calls :
        /\ (client.ok /\ client.usePKCE /\ req[r].promise.state = "resolved") =>
              /\ \E i \in 1..Len(FetchesBy(r)) :
                    LET a == FetchesBy(r)[i].answer
                    IN /\ Returned(a)
                       /\ req[r].promise.value.token =
                              Get(a.json.result, "firebaseToken")
              /\ req[r].promise.value.token \notin MessageTokens
        /\ (client.ok /\ ~client.usePKCE) =>
              /\ FetchesBy(r) = <<>>
              /\ ~InLog(r, "fetch")

\* a PKCE flow was ended by the SUCCESS message that carries token, uid and
\* a code: the code was exchanged and the flow resolved with the token of
\* the backend
C32_Witness ==
    \E r \in Calls :
        /\ client.ok /\ client.usePKCE
        /\ Len(FetchesBy(r)) = 1
        /\ FetchesBy(r)[1].body.data.code = MsgTokenAndCode.code
        /\ FetchesBy(r)[1].answer = RespGood
        /\ req[r].promise.state = "resolved"
        /\ req[r].promise.value.token = "T"

(***************************************************************************)
(* C33: whenever signIn has resolved, in either mode, the token and the    *)
(* uid of its result are present and non-empty.                            *)
(***************************************************************************)
C33_ResolvedHasTokenAndUid ==
    \A r \in Calls :
        req[r].promise.state = "resolved" =>
            /\ Present(req[r].promise.value, "token")
            /\ Present(req[r].promise.value, "uid")

(***************************************************************************)
(* C34: under fair scheduling of the message dispatch, the closure-poll    *)
(* timer and the exchange call, an invocation whose popup has posted a     *)
(* TREEVIZ_AUTH_SUCCESS / TREEVIZ_AUTH_ERROR message, or whose popup is     *)
(* closed, eventually settles: its promise leaves the pending state.       *)
(***************************************************************************)
C34_EventuallySettles ==
    \A r \in Calls :
        (OwnTerminalQueued(r) \/ req[r].popup = "closed")
            ~> (req[r].promise # Pending)

\* one invocation left Exchanging with the answer of the backend and was
\* resolved, another was rejected by the tick that found its popup closed
C34_Witness ==
    \E r, q \in Calls :
        /\ InLog(r, "fetch")
        /\ ~FetchesBy(r)[1].pending
        /\ req[r].promise.state = "resolved"
        /\ InLog(q, "CLOSED")
        /\ req[q].promise = Rejected(Err(CancelledMessage))

\* invocation r was settled by the handling of a message
SettledByMessage(r) == InLog(r, "SUCCESS") \/ InLog(r, "ERROR")

(***************************************************************************)
(* C35: in the secret-based client, whose message handler does not clear   *)
(* the closure-poll timer, the timer of a flow settled by a message is     *)
(* still eventually cleared, by the next tick, which finds the popup       *)
(* closed; and no step, that tick's reject("Authentication cancelled")     *)
(* included, changes the outcome of a promise that is already settled.     *)
(***************************************************************************)
C35_TimerClearedLater ==
    /\ \A r \in Calls :
          (SettledByMessage(r) /\ r \in timers) ~> (r \notin timers)
    /\ [][\A r \in Calls :
             req[r].promise # Pending => req'[r].promise = req[r].promise]_vars

\* a flow was resolved by a SUCCESS message with its timer left running,
\* and the tick that followed cleared the timer and made the extra reject
C35_Witness ==
    \E r \in Calls :
        /\ Log(r) = OpenedLog \o <<"SUCCESS", "removeEventListener",
                                   "popup.close", "resolve", "CLOSED",
                                   "clearInterval", "removeEventListener",
                                   "reject">>
        /\ req[r].promise = Resolved(SecretResult(MsgToken))
        /\ r \notin timers

=============================================================================
